---- MODULE Spec2Model ----
(***************************************************************************)
(* A model of the chunk streaming core of "The Actual Backrooms":          *)
(*   src/src/Chunk.ts   hashCoords, seededRandom, Chunk (generate,         *)
(*                      addLights, dispose)                                *)
(*   src/src/World.ts   World (update, loadChunk, unloadChunk,             *)
(*                      forceUpdate)                                       *)
(*   src/unnamed/part_000  types.ts (DEFAULT_CONFIG), Multiplayer.ts       *)
(*                      (connect, sendPosition, the avatars)               *)
(*   src/src/main.ts    BackroomsGame (constructor, start, animate)        *)
(*   src/server/index.js   the relay server's handlers                     *)
(*   src/src/TouchControls.ts   TouchControls (the touch listeners,        *)
(*                      update)                                            *)
(*                                                                         *)
(* JavaScript numbers are IEEE doubles.  Where the code's arithmetic       *)
(* leaves the range in which doubles are exact (the product in             *)
(* seededRandom) the model rounds as the double does, on numbers held as   *)
(* little-endian digit sequences in base 2^11.                             *)
(***************************************************************************)
EXTENDS Integers, Sequences, FiniteSets, TLC

(***************************************************************************)
(* Numbers                                                                 *)
(***************************************************************************)
\* 0x7fffffff, the mask of seededRandom and hashCoords and the divisor of
\* seededRandom.
Mask31 == 2147483647

\* Digit base of the wide arithmetic: products of two digits and sums of a
\* few of them stay below 2^31.
DigitBase == 2048

\* The digits of a natural number below 2^33, least significant first.
ToDigits(n) ==
  << n % DigitBase, (n \div DigitBase) % DigitBase,
     n \div (DigitBase * DigitBase), 0, 0, 0 >>

\* Carry propagation over six columns.
Normalize(c) ==
  LET k0 == c[1]
      k1 == c[2] + (k0 \div DigitBase)
      k2 == c[3] + (k1 \div DigitBase)
      k3 == c[4] + (k2 \div DigitBase)
      k4 == c[5] + (k3 \div DigitBase)
      k5 == c[6] + (k4 \div DigitBase)
  IN << k0 % DigitBase, k1 % DigitBase, k2 % DigitBase,
        k3 % DigitBase, k4 % DigitBase, k5 >>

\* The exact product of two numbers below 2^31.
MulWide(a, b) ==
  LET x == ToDigits(a)
      y == ToDigits(b)
  IN Normalize(<< x[1] * y[1],
                  x[1] * y[2] + x[2] * y[1],
                  x[1] * y[3] + x[2] * y[2] + x[3] * y[1],
                  x[2] * y[3] + x[3] * y[2],
                  x[3] * y[3],
                  0 >>)

\* The exact sum of a wide number and a number below 2^31.
AddWide(w, n) ==
  LET y == ToDigits(n)
  IN Normalize(<< w[1] + y[1], w[2] + y[2], w[3] + y[3], w[4], w[5], w[6] >>)

\* The double nearest to a wide number (round to nearest, ties to even).
\* The numbers rounded here are below 2^64, so at most DigitBits low bits
\* are dropped and they all lie in the lowest digit.
RoundToDouble(w) ==
  LET DigitBits == 11
  IN
  \* The double's significand width.
  LET SignificandBits == 53
      Max(a, b) == IF a >= b THEN a ELSE b
      Pow2(n) == 2^n
  IN
  \* Number of bits of a wide number.
  LET WideBitLen(n) ==
        \* Number of bits of a digit (0 for 0).
        LET RECURSIVE BitLen(_)
            BitLen(d) == IF d = 0 THEN 0 ELSE 1 + BitLen(d \div 2)
        IN
        IF n[6] # 0 THEN 5 * DigitBits + BitLen(n[6])
        ELSE IF n[5] # 0 THEN 4 * DigitBits + BitLen(n[5])
        ELSE IF n[4] # 0 THEN 3 * DigitBits + BitLen(n[4])
        ELSE IF n[3] # 0 THEN 2 * DigitBits + BitLen(n[3])
        ELSE IF n[2] # 0 THEN DigitBits + BitLen(n[2])
        ELSE BitLen(n[1])
  IN
  LET e == Max(0, WideBitLen(w) - SignificandBits)
      unit == Pow2(e)
      rem == w[1] % unit
      odd == IF e < DigitBits THEN ((w[1] \div unit) % 2) = 1
                              ELSE (w[2] % 2) = 1
      up == (2 * rem > unit) \/ (2 * rem = unit /\ odd)
  IN IF e = 0 THEN w
     ELSE Normalize(<< w[1] - rem + (IF up THEN unit ELSE 0),
                       w[2], w[3], w[4], w[5], w[6] >>)

\* ToInt32 followed by & 0x7fffffff on a non-negative integral double: its
\* low 31 bits.
WideAndMask31(w) ==
  w[1] + w[2] * DigitBase + (w[3] % 512) * DigitBase * DigitBase

(***************************************************************************)
(* Chunk.ts: seededRandom                                                  *)
(***************************************************************************)
LcgA == 1103515245

LcgC == 12345

\* The recurrence in integers, nothing rounded:
\* (seed * 1103515245 + 12345) mod 2^31.
seededRandomNext_exactInteger(seed) ==
  WideAndMask31(AddWide(MulWide(seed, LcgA), LcgC))

\* seed = (seed * 1103515245 + 12345) & 0x7fffffff, each operation rounded
\* to a double.
seededRandomNext(seed) ==
  WideAndMask31(RoundToDouble(AddWide(RoundToDouble(MulWide(seed, LcgA)), LcgC)))

Draw085 == 1825361099

Draw09 == 1932735282

\* seed / 0x7fffffff as the fraction it is the double of.  A numerator
\* below 0x7fffffff gives a quotient at most 1 - 2^-31, which the division
\* rounds to a double below 1; a numerator equal to it gives 1.
Quotient(seed) == [num |-> seed, den |-> Mask31]

(***************************************************************************)
(* Chunk.ts: hashCoords                                                    *)
(***************************************************************************)
\* The fold leaves the range of 32-bit integers, so its numbers are held in
\* two parts: value = hi * 2^16 + lo with lo in 0 .. 2^16 - 1 and hi signed.
\* All of them are far below 2^53 in magnitude, where the double is exact.
WordBase == 65536

Split(n) == [hi |-> n \div WordBase, lo |-> n % WordBase]

\* The number with the given parts, the low one brought back into range.
Carry(hi, lo) == [hi |-> hi + (lo \div WordBase), lo |-> lo % WordBase]

Plus(a, b) == Carry(a.hi + b.hi, a.lo + b.lo)

Minus(a, b) == Carry(a.hi - b.hi, a.lo - b.lo)

\* ToInt32: the value modulo 2^32 in [-2^31, 2^31).
ToInt32(n) == [hi |-> ((n.hi + 32768) % WordBase) - 32768, lo |-> n.lo]

\* h << 5: ToInt32 of h, shifted, and ToInt32 again.
Shl5(h) ==
  LET t == ToInt32(h)
  IN ToInt32(Carry(t.hi * 32, t.lo * 32))

\* h | 0 in the place of the mask: the 32-bit value with its sign.
AndMask31_keepSign(n) == ToInt32(n).hi * WordBase + n.lo

\* n & 0x7fffffff: ToInt32 of n without its top bit, a number of 31 bits.
AndMask31(n) == (ToInt32(n).hi % 32768) * WordBase + n.lo

\* h = (h << 5) + v, the subtraction left out.
hashFold_shiftOnly(h, v) == Plus(Shl5(h), v)

\* h = ((h << 5) - h) + v
hashFold(h, v) == Plus(Minus(Shl5(h), h), v)

\* hashCoords on numbers in two parts.
hashCoordsOf(x, z, seed) == AndMask31(hashFold(hashFold(seed, x), z))

hashCoords(x, z, seed) == hashCoordsOf(Split(x), Split(z), Split(seed))

(***************************************************************************)
(* types.ts: WorldConfig                                                   *)
(***************************************************************************)
\* DEFAULT_CONFIG.  corridorWidth is read nowhere and is left out.
DefaultChunkSize == 32

DefaultViewDistance == 3

DefaultWallHeight == 3

DefaultSeed == 42

\* The view distances the model explores, 0 .. MaxViewDistance.
MaxViewDistance == 1

\* The world seeds the model explores: the default (also the one main.ts
\* passes) and one other.
Seeds == {DefaultSeed, 7}

\* The part of a config that generation reads.
GenConfigs == [chunkSize : {DefaultChunkSize}, wallHeight : {DefaultWallHeight}, seed : Seeds]

GenConfigOf(cfg) ==
  [chunkSize |-> cfg.chunkSize, wallHeight |-> cfg.wallHeight, seed |-> cfg.seed]

(***************************************************************************)
(* Chunk.ts: the noise field                                               *)
(*                                                                         *)
(* createNoise2D (package simplex-noise) builds its permutation table from *)
(* 255 draws of the function it is given, and noise2D is a pure function   *)
(* of that table and the sample point.  The table is modelled by a digest  *)
(* of the draws and the gradient arithmetic by a fixed function of the     *)
(* digest and the sample point, in thousandths, in -1000 .. 1000.          *)
(***************************************************************************)
\* n iterations of the table's shuffle, split in halves; an iteration is
\* one draw.  The first test holds of every generator state (seeds are
\* 31-bit); it makes the evaluation of f strict, which keeps the evaluation
\* shallow.
RECURSIVE BuildPermutation(_, _)
BuildPermutation(f, n) ==
  IF f.seed \notin 0..Mask31 \/ n = 0 THEN f
  ELSE IF n = 1
  THEN LET s == seededRandomNext(f.seed)
       IN [seed |-> s, perm |-> (f.perm * 31 + (s % 65521)) % 65521]
  ELSE BuildPermutation(BuildPermutation(f, n \div 2), n - (n \div 2))

\* createNoise2D(() => random()): the field and the state the draws leave
\* the generator in.
createNoise2D(seed) ==
  LET NoiseDraws == 255
  IN BuildPermutation([seed |-> seed, perm |-> 0], NoiseDraws)

(***************************************************************************)
(* Chunk.ts: Chunk.generate and Chunk.addLights                            *)
(***************************************************************************)
gridSize == 4

lightSpacing == 8

\* noiseVal > wallThreshold, where
\*   noiseVal = n1 * 0.5 + n2 * 0.3 + n3 * 0.2
\*   depth = sqrt(worldX^2 + worldZ^2) / 100
\*   wallThreshold = 0.1 - min(depth * 0.02, 0.15)
\* In ten-thousandths: noise = 5 n1 + 3 n2 + 2 n3 and the threshold is
\* 1000 - min(2 d, 1500) with d = sqrt(worldX^2 + worldZ^2).
\* The square roots are not taken: a threshold is held as the 1000 it starts
\* from and the square of what is taken off, min(2 d, 1500)^2.
\* Math.min without its second argument: the reduction is not clamped.
ReductionSq_noClamp(worldX, worldZ) == 4 * (worldX * worldX + worldZ * worldZ)

\* Math.min(depth * 0.02, 0.15), squared.
ReductionSq(worldX, worldZ) ==
  LET dd == worldX * worldX + worldZ * worldZ
  IN IF 4 * dd >= 1500 * 1500 THEN 1500 * 1500 ELSE 4 * dd

\* const wallThreshold = 0.1 - Math.min(depth * 0.02, 0.15)
wallThreshold(worldX, worldZ) ==
  [minuend |-> 1000, reductionSq |-> ReductionSq(worldX, worldZ)]

\* The threshold of a cell taken from the cell's own corner instead of the
\* chunk's.
cellThreshold_atCell(g) ==
  LET cellSize == g.cfg.chunkSize \div gridSize
  IN wallThreshold(g.coord.x * g.cfg.chunkSize + g.gx * cellSize,
                   g.coord.z * g.cfg.chunkSize + g.gz * cellSize)

\* Lines 231-232 for the cell the sweep is at: depth is taken from worldX and
\* worldZ, the corner of the chunk.
cellThreshold(g) ==
  wallThreshold(g.coord.x * g.cfg.chunkSize, g.coord.z * g.cfg.chunkSize)

\* The start of generate with the ceiling added before the floor.
GenInit_ceilingFirst(coord, cfg) ==
  LET chunkSeed == hashCoords(coord.x, coord.z, cfg.seed)
      field == createNoise2D(chunkSeed)
  IN [coord |-> coord, cfg |-> cfg, pc |-> "cells",
      seed |-> field.seed, perm |-> field.perm,
      gx |-> 0, gz |-> 0, lx |-> lightSpacing \div 2, lz |-> lightSpacing \div 2,
      elements |-> << [kind |-> "ceiling", size |-> cfg.chunkSize, y |-> cfg.wallHeight],
                      [kind |-> "floor", size |-> cfg.chunkSize, y |-> 0] >>,
      draws |-> << >>, thresholds |-> << >>, samples |-> << >>]

\* The state of one call of generate before the cell sweep: lines 189-216.
GenInit(coord, cfg) ==
  LET chunkSeed == hashCoords(coord.x, coord.z, cfg.seed)
      field == createNoise2D(chunkSeed)
  IN [coord |-> coord, cfg |-> cfg, pc |-> "cells",
      seed |-> field.seed, perm |-> field.perm,
      gx |-> 0, gz |-> 0, lx |-> lightSpacing \div 2, lz |-> lightSpacing \div 2,
      elements |-> << [kind |-> "floor", size |-> cfg.chunkSize, y |-> 0],
                      [kind |-> "ceiling", size |-> cfg.chunkSize, y |-> cfg.wallHeight] >>,
      draws |-> << >>, thresholds |-> << >>, samples |-> << >>]

\* The two loops with gz outside and gx inside.
NextCell_gzOuter(gx, gz) ==
  IF gx + 1 >= gridSize THEN [gx |-> 0, gz |-> gz + 1] ELSE [gx |-> gx + 1, gz |-> gz]

\* The cell after (gx, gz) in the two loops of lines 218-219: gx outside, gz
\* inside.
NextCell(gx, gz) ==
  IF gz + 1 >= gridSize THEN [gx |-> gx + 1, gz |-> 0] ELSE [gx |-> gx, gz |-> gz + 1]

\* The sample taken half a cell further in on both axes.
samplePoint_centre(g) ==
  LET cellSize == g.cfg.chunkSize \div gridSize
  IN [x |-> g.coord.x * g.cfg.chunkSize + g.gx * cellSize + cellSize \div 2,
      z |-> g.coord.z * g.cfg.chunkSize + g.gz * cellSize + cellSize \div 2]

\* cellWorldX and cellWorldZ (lines 220-221), where the noise is sampled.
samplePoint(g) ==
  LET cellSize == g.cfg.chunkSize \div gridSize
  IN [x |-> g.coord.x * g.cfg.chunkSize + g.gx * cellSize,
      z |-> g.coord.z * g.cfg.chunkSize + g.gz * cellSize]

\* const wallLength = cellSize * (0.5 + random() * 0.5): the length is
\* cellSize * (halves / 2 + random * share / 2).
wallLength(cellSize, value) ==
  [cellSize |-> cellSize, halves |-> 1, share |-> 1, random |-> value]

\* One iteration of the inner loop of the cell sweep: lines 218-269.  A
\* wall's x and z are in cells: cell + halves / 2 is
\* (gx * cellSize + cellSize / 2) / cellSize.
CellStep(g) ==
  \* noiseVal > wallThreshold
  LET Exceeds(noise, threshold) ==
        \/ noise > threshold.minuend
        \/ (threshold.minuend - noise) * (threshold.minuend - noise) < threshold.reductionSq
  IN
  \* noise2D(x, z), the sample point given in twentieths.
  LET noise2D(perm, x20, z20) ==
        ((perm * 7 + (x20 % 1009) * 131 + (z20 % 1013) * 37 + (x20 % 17) * (z20 % 19)) % 2001) - 1000
  IN
  LET Draw05 == 1073741823
  IN
  \* random() > 0.92, > 0.85, > 0.9, > 0.5 on the value seed / 0x7fffffff:
  \* the largest seed for which the comparison is false.
  LET Draw092 == 1975684955
  IN
  LET chunkSize == g.cfg.chunkSize
      cellSize == chunkSize \div gridSize
      worldX == g.coord.x * chunkSize
      worldZ == g.coord.z * chunkSize
      cellWorldX == samplePoint(g).x
      cellWorldZ == samplePoint(g).z
      noiseVal == 5 * noise2D(g.perm, cellWorldX, cellWorldZ)
                  + 3 * noise2D(g.perm, 2 * cellWorldX, 2 * cellWorldZ)
                  + 2 * noise2D(g.perm, 4 * cellWorldX, 4 * cellWorldZ)
      threshold == cellThreshold(g)
      wall == Exceeds(noiseVal, threshold)
      \* the two draws of a wall
      s1 == IF wall THEN seededRandomNext(g.seed) ELSE g.seed
      s2 == IF wall THEN seededRandomNext(s1) ELSE g.seed
      wallEls == IF wall
                 THEN << [kind |-> "wall", gx |-> g.gx, gz |-> g.gz,
                          x |-> [cell |-> g.gx, halves |-> 1],
                          z |-> [cell |-> g.gz, halves |-> 1],
                          length |-> wallLength(cellSize, Quotient(s1)),
                          rotation |-> IF s2 > Draw05 THEN 90 ELSE 0] >>
                 ELSE << >>
      wallDraws == IF wall
                   THEN << <<"wallLength", g.gx, g.gz, s1>>,
                           <<"wallRotation", g.gx, g.gz, s2>> >>
                   ELSE << >>
      \* the pillar test and the two draws of a pillar
      s3 == seededRandomNext(s2)
      pillar == s3 > Draw092
      s4 == IF pillar THEN seededRandomNext(s3) ELSE s3
      s5 == IF pillar THEN seededRandomNext(s4) ELSE s3
      pillarEls == IF pillar
                   THEN << [kind |-> "pillar", gx |-> g.gx, gz |-> g.gz,
                            dx |-> s4, dz |-> s5] >>
                   ELSE << >>
      pillarDraws == IF pillar
                     THEN << <<"pillarX", g.gx, g.gz, s4>>, <<"pillarZ", g.gx, g.gz, s5>> >>
                     ELSE << >>
      lastZ == g.gz + 1 >= gridSize
      lastX == lastZ /\ g.gx + 1 >= gridSize
  IN [g EXCEPT !.seed = s5,
               !.elements = g.elements \o wallEls \o pillarEls,
               !.draws = g.draws \o wallDraws \o << <<"pillarTest", g.gx, g.gz, s3>> >>
                                 \o pillarDraws,
               !.thresholds = Append(g.thresholds,
                                     [gx |-> g.gx, gz |-> g.gz, value |-> threshold]),
               !.samples = Append(g.samples,
                                  [gx |-> g.gx, gz |-> g.gz,
                                   x |-> cellWorldX, z |-> cellWorldZ]),
               !.gz = NextCell(g.gx, g.gz).gz,
               !.gx = NextCell(g.gx, g.gz).gx,
               !.pc = IF lastX
                      THEN (IF lightSpacing \div 2 < chunkSize THEN "lights" ELSE "done")
                      ELSE "cells"]

\* addLights drawing the intensity before the test that skips the point.
LightStep_drawBoth(g) ==
  LET chunkSize == g.cfg.chunkSize
      s1 == seededRandomNext(g.seed)
      s2 == seededRandomNext(s1)
      skip == s1 > Draw085
      els == IF skip THEN << >>
             ELSE << [kind |-> "fixture", x |-> g.lx, z |-> g.lz, dim |-> (s2 > Draw09)],
                     [kind |-> "pointLight", x |-> g.lx, z |-> g.lz] >>
      ds == << <<"lightSkip", g.lx, g.lz, s1>>, <<"lightIntensity", g.lx, g.lz, s2>> >>
      lastZ == g.lz + lightSpacing >= chunkSize
      lastX == lastZ /\ g.lx + lightSpacing >= chunkSize
  IN [g EXCEPT !.seed = s2,
               !.elements = g.elements \o els,
               !.draws = g.draws \o ds,
               !.lz = IF lastZ THEN lightSpacing \div 2 ELSE g.lz + lightSpacing,
               !.lx = IF lastZ THEN g.lx + lightSpacing ELSE g.lx,
               !.pc = IF lastX THEN "done" ELSE "lights"]

\* One iteration of the inner loop of addLights: lines 279-301.  The draws
\* are logged with the state they left, the numerator of the value.
LightStep(g) ==
  LET chunkSize == g.cfg.chunkSize
      s1 == seededRandomNext(g.seed)
      skip == s1 > Draw085
      s2 == IF skip THEN s1 ELSE seededRandomNext(s1)
      els == IF skip THEN << >>
             ELSE << [kind |-> "fixture", x |-> g.lx, z |-> g.lz, dim |-> (s2 > Draw09)],
                     [kind |-> "pointLight", x |-> g.lx, z |-> g.lz] >>
      ds == IF skip THEN << <<"lightSkip", g.lx, g.lz, s1>> >>
            ELSE << <<"lightSkip", g.lx, g.lz, s1>>, <<"lightIntensity", g.lx, g.lz, s2>> >>
      lastZ == g.lz + lightSpacing >= chunkSize
      lastX == lastZ /\ g.lx + lightSpacing >= chunkSize
  IN [g EXCEPT !.seed = s2,
               !.elements = g.elements \o els,
               !.draws = g.draws \o ds,
               !.lz = IF lastZ THEN lightSpacing \div 2 ELSE g.lz + lightSpacing,
               !.lx = IF lastZ THEN g.lx + lightSpacing ELSE g.lx,
               !.pc = IF lastX THEN "done" ELSE "lights"]

(***************************************************************************)
(* State                                                                   *)
(***************************************************************************)
VARIABLES
  config,           \* World.config
  chunks,           \* World.chunks: the Map's entries in insertion order
  lastPlayerChunk,  \* World.lastPlayerChunk
  scene,            \* the chunk groups among World.scene's children, in order
  heap,             \* every Chunk constructed so far, by identity
  wallMaterial,     \* Chunk.wallMaterial (static): 0 while undefined
  layout,           \* what generate yields for each coordinate in reach
  lastCall,         \* history: the last call of update or forceUpdate
  log,              \* history: the loadChunk/unloadChunk calls of that call
  recomputes,       \* history: the number of calls that passed the early return
  gen,              \* the call of generate under way, if any
  results,          \* history: what each (coordinate, config) was generated as
  made,             \* history: the number of chunks constructed
  thresholdLog,     \* history: the wall thresholds each coordinate was swept with
  hash,             \* a call of hashCoords: its arguments, its position, h
  random,           \* the closures seededRandom returned: seed and calls
  players,          \* server: the Map players, its entries in insertion order
  lastBroadcast,    \* server: lastBroadcast
  sockets,          \* server: the ids of the sockets connected to io
  issued,           \* server: the number of socket ids handed out so far
  clock,            \* what Date.now() returns
  nextRoster,       \* when the 5000 ms interval is due next
  sent,             \* history: what the last handler emitted, in order
  lastEvent,        \* history: the last handler that ran, and with what
  gone,             \* history: the ids of the sockets that disconnected
  movedAt,          \* history: the times of the player_moved broadcasts
  throttled,        \* history: the last move of a connected socket, if it was
                    \* not broadcast, and whether a roster has carried it since
  socket,           \* Multiplayer.socket: whether it is set, and the socket's id
  connected,        \* Multiplayer.connected
  localPlayerId,    \* Multiplayer.localPlayerId: 0 for ''
  link,             \* history: the last event of the client's socket
  moves,            \* history: what sendPosition emitted in the last frame
  frames,           \* history: the number of frames animated
  avatars,          \* Multiplayer.players: the Map's entries in insertion order
  avatarScene,      \* the avatars among the scene's children, in order
  avatarsMade,      \* the number of avatars created so far, by identity
  received,         \* history: the last event a handler of the socket got
  touchControls,    \* the fields of the TouchControls object
  fingers,          \* the touches on the screen: where each one is, by identifier
  touchEvent        \* history: the last TouchEvent and the bindings it found

worldVars ==
  << config, chunks, lastPlayerChunk, scene, heap, layout,
     lastCall, log, recomputes >>

genVars == << gen, results, made, thresholdLog >>

\* The calls of the two functions at the head of Chunk.ts.
calcVars == << hash, random >>

\* The relay server and its surroundings (server/index.js).
serverVars ==
  << players, lastBroadcast, sockets, issued, clock, nextRoster, sent,
     lastEvent, gone, movedAt, throttled >>

\* The Multiplayer object of the game client and its socket.
clientVars ==
  << socket, connected, localPlayerId, link, moves, frames,
     avatars, avatarScene, avatarsMade, received >>

\* What neither the world nor a generation touches.
otherVars == << calcVars, serverVars, clientVars, touchControls, fingers, touchEvent >>

vars == << worldVars, wallMaterial, genVars, otherVars >>

(***************************************************************************)
(* Inputs and bounds                                                       *)
(***************************************************************************)
\* Positions are held in tenths of a world unit.
PosUnit == 10

\* The observer positions the model explores: the start position of
\* Player.ts, the far corner of chunk (0,0), the position x = chunkSize at
\* another height, one just below zero on both axes, and one several chunks
\* away.
Positions ==
  { [x |-> 0, y |-> 16, z |-> 0],
    [x |-> 319, y |-> 16, z |-> 319],
    [x |-> 320, y |-> 30, z |-> 0],
    [x |-> -1, y |-> 16, z |-> -1],
    [x |-> 1000, y |-> 16, z |-> 400] }

\* The calls of update that get past the early return are counted, and the
\* model stops calling at this number.
MaxRecomputes == 4

\* Math.random is modelled by the choice of one of this many textures.
TextureVariants == 2

\* The number of sockets that connect, and of handlers that run.
MaxConnections == 3

MaxEvents == 6

(***************************************************************************)
(* server/index.js                                                         *)
(***************************************************************************)
BROADCAST_INTERVAL == 50

\* The period of the roster broadcast (line 82).
ROSTER_INTERVAL == 5000

(***************************************************************************)
(* World.ts                                                                *)
(***************************************************************************)
\* A JavaScript number that is an integer or Infinity.
Num(n) == [inf |-> FALSE, v |-> n]

Infinity == [inf |-> TRUE, v |-> 0]

\* A ChunkCoord with finite components, as lastPlayerChunk holds it.
Fin(coord) == [x |-> Num(coord.x), z |-> Num(coord.z)]

\* `${coord.x},${coord.z}`: the text determines both integers.
chunkKey(coord) == << coord.x, coord.z >>

\* The division rounding towards zero, as (worldPos.x / chunkSize) | 0 would.
worldToChunk_truncate(worldPos, cfg) ==
  [x |-> IF worldPos.x < 0 THEN -((-worldPos.x) \div (PosUnit * cfg.chunkSize))
         ELSE worldPos.x \div (PosUnit * cfg.chunkSize),
   z |-> IF worldPos.z < 0 THEN -((-worldPos.z) \div (PosUnit * cfg.chunkSize))
         ELSE worldPos.z \div (PosUnit * cfg.chunkSize)]

\* Math.floor(worldPos.x / chunkSize), and the same for z.
worldToChunk(worldPos, cfg) ==
  [x |-> worldPos.x \div (PosUnit * cfg.chunkSize),
   z |-> worldPos.z \div (PosUnit * cfg.chunkSize)]

\* The coordinates the two nested loops of update visit, in order.
WindowCoords(currentChunk, viewDistance) ==
  LET side == 2 * viewDistance + 1
  IN [i \in 1..(side * side) |->
        [x |-> currentChunk.x - viewDistance + ((i - 1) \div side),
         z |-> currentChunk.z - viewDistance + ((i - 1) % side)]]

\* Map.has
Has(entries, key) ==
  \E i \in 1..Len(entries) : ~entries[i].empty /\ entries[i].key = key

\* Map.set: an existing key keeps its place, a new one goes last.
MapSet(entries, key, chunk) ==
  \* An entry of the Map; delete empties an entry in place, and the entry is
  \* dropped from the list when no iteration is under way.
  LET Entry(k, c) == [key |-> k, chunk |-> c, empty |-> FALSE]
  IN
  IF Has(entries, key)
  THEN [i \in 1..Len(entries) |->
          IF ~entries[i].empty /\ entries[i].key = key
          THEN Entry(key, chunk) ELSE entries[i]]
  ELSE Append(entries, Entry(key, chunk))

\* Map.delete written as a splice at indexOf(key): for a key that is absent
\* the index is -1 and the last entry goes.
MapDelete_spliceAtIndexOf(entries, key) ==
  [i \in 1..Len(entries) |->
     IF \/ (~entries[i].empty /\ entries[i].key = key)
        \/ (~Has(entries, key) /\ i = Len(entries))
     THEN [entries[i] EXCEPT !.empty = TRUE] ELSE entries[i]]

\* Map.delete
MapDelete(entries, key) ==
  [i \in 1..Len(entries) |->
     IF ~entries[i].empty /\ entries[i].key = key
     THEN [entries[i] EXCEPT !.empty = TRUE] ELSE entries[i]]

\* The list without its emptied entries.
Compact(entries) == SelectSeq(entries, LAMBDA e : ~e.empty)

\* Object3D.remove: the children without the given one.
SceneRemove(children, id) == SelectSeq(children, LAMBDA m : m # id)

\* Object3D.add: the object leaves its old place and goes last.
SceneAdd(children, id) == Append(SceneRemove(children, id), id)

\* Chunk.initMaterials, guarded as in the constructor (lines 42-44): the
\* static materials are made once, from textures drawn with Math.random.
initMaterials(material, tex) == IF material = 0 THEN tex ELSE material

\* A constructor in which initMaterials, when it runs, draws for its textures
\* from the chunk's generator instead of Math.random.
ChunkConstructor_sharedRandom(coord, cfg, material, tex) ==
  [wallMaterial |-> initMaterials(material, tex),
   gen |-> [GenInit(coord, cfg) EXCEPT
              !.seed = IF material = 0 THEN seededRandomNext(@) ELSE @]]

\* new Chunk(coord, config), lines 36-47, up to the cell sweep of generate:
\* the statics it leaves and the generation it starts.
ChunkConstructor(coord, cfg, material, tex) ==
  [wallMaterial |-> initMaterials(material, tex), gen |-> GenInit(coord, cfg)]

\* The loops of generate and addLights, run to their end.
RECURSIVE GenRun(_)
GenRun(g) ==
  IF g.pc = "done" THEN g
  ELSE GenRun(IF g.pc = "cells" THEN CellStep(g) ELSE LightStep(g))

\* The children of the group of a chunk generated for coord.  The binding
\* makes the generation be evaluated once.
ChildrenOf(coord, cfg) ==
  LET \* this.generate() as a whole: the children of the chunk's group, in
      \* order.
      generate == GenRun(GenInit(coord, cfg)).elements
      \* The children's kinds, in order: what World and dispose see of a chunk.
      MeshChildren(elements) == [i \in 1..Len(elements) |-> elements[i].kind]
  IN CHOOSE k \in {MeshChildren(els) : els \in {generate}} : TRUE

\* Chunk.dispose: lines 304-311.
dispose(chunk) == [chunk EXCEPT !.geometries = {}]

\* loadChunk: lines 78-82.  w is the world as a record.
loadChunk(w, coord, tex) ==
  \* new Chunk(coord, config): lines 36-47.  The object owns one geometry per
  \* mesh child and one material per fixture; materials counts as live what
  \* has not been disposed.
  LET NewChunk(at, children) ==
        \* The children that were given a material of their own (fixtureMat).
        LET HasOwnMaterial(kind) == kind = "fixture"
        IN
        \* instanceof THREE.Mesh for a child of a chunk's group.
        LET IsMesh(kind) == kind \in {"floor", "ceiling", "wall", "pillar", "fixture"}
        IN
        [coord |-> at,
         geometries |-> {i \in 1..Len(children) : IsMesh(children[i])},
         materials |-> {i \in 1..Len(children) : HasOwnMaterial(children[i])},
         unloads |-> 0]
  IN
  LET id == Len(w.heap) + 1
  IN [w EXCEPT
        !.wallMaterial = initMaterials(w.wallMaterial, tex),
        !.heap = Append(w.heap, NewChunk(coord, w.layout[coord])),
        !.chunks = MapSet(w.chunks, chunkKey(coord), id),
        !.scene = SceneAdd(w.scene, id),
        !.log = Append(w.log, << "load", chunkKey(coord), id >>)]

\* unloadChunk without scene.remove.
unloadChunk_keepMesh(w, key, id) ==
  [w EXCEPT
     !.heap = [w.heap EXCEPT ![id] = [dispose(w.heap[id]) EXCEPT !.unloads = @ + 1]],
     !.chunks = MapDelete(w.chunks, key),
     !.log = Append(w.log, << "unload", key, id >>)]

\* unloadChunk: lines 84-88.
unloadChunk(w, key, id) ==
  [w EXCEPT
     !.scene = SceneRemove(w.scene, id),
     !.heap = [w.heap EXCEPT ![id] = [dispose(w.heap[id]) EXCEPT !.unloads = @ + 1]],
     !.chunks = MapDelete(w.chunks, key),
     !.log = Append(w.log, << "unload", key, id >>)]

\* The first loop without the test of chunks.has.
RECURSIVE LoadLoop_reload(_, _, _, _)
LoadLoop_reload(w, coords, i, tex) ==
  IF Len(w.log) < 0 \/ i > Len(coords) THEN w
  ELSE LoadLoop_reload(loadChunk(w, coords[i], tex), coords, i + 1, tex)

\* The first loop ending one coordinate early.
RECURSIVE LoadLoop_stopEarly(_, _, _, _)
LoadLoop_stopEarly(w, coords, i, tex) ==
  IF Len(w.log) < 0 \/ i >= Len(coords) THEN w
  ELSE LoadLoop_stopEarly(IF ~Has(w.chunks, chunkKey(coords[i]))
                          THEN loadChunk(w, coords[i], tex) ELSE w,
                          coords, i + 1, tex)

\* The first loop of update from its i-th iteration on: lines 55-68.  (The
\* test of the log holds of no world; it makes the evaluation of w strict.)
RECURSIVE LoadLoop(_, _, _, _)
LoadLoop(w, coords, i, tex) ==
  IF Len(w.log) < 0 \/ i > Len(coords) THEN w
  ELSE LoadLoop(IF ~Has(w.chunks, chunkKey(coords[i]))
                THEN loadChunk(w, coords[i], tex) ELSE w,
                coords, i + 1, tex)

\* The second loop over a list that closes up on delete while the index
\* moves on: the entry after an unloaded one is passed over.
RECURSIVE UnloadLoop_skipAfterDelete(_, _, _)
UnloadLoop_skipAfterDelete(w, neededChunks, i) ==
  IF Len(w.log) < 0 \/ i > Len(w.chunks) THEN w
  ELSE LET e == w.chunks[i]
       IN IF ~e.empty /\ e.key \notin neededChunks
          THEN UnloadLoop_skipAfterDelete(unloadChunk(w, e.key, e.chunk),
                                          neededChunks, i + 2)
          ELSE UnloadLoop_skipAfterDelete(w, neededChunks, i + 1)

\* The second loop leaving at its first unload.
RECURSIVE UnloadLoop_breakAfterFirst(_, _, _)
UnloadLoop_breakAfterFirst(w, neededChunks, i) ==
  IF Len(w.log) < 0 \/ i > Len(w.chunks) THEN w
  ELSE LET e == w.chunks[i]
       IN IF ~e.empty /\ e.key \notin neededChunks
          THEN unloadChunk(w, e.key, e.chunk)
          ELSE UnloadLoop_breakAfterFirst(w, neededChunks, i + 1)

\* The second loop of update from the i-th entry on: lines 71-75.
RECURSIVE UnloadLoop(_, _, _)
UnloadLoop(w, neededChunks, i) ==
  IF Len(w.log) < 0 \/ i > Len(w.chunks) THEN w
  ELSE LET e == w.chunks[i]
       IN UnloadLoop(IF ~e.empty /\ e.key \notin neededChunks
                     THEN unloadChunk(w, e.key, e.chunk) ELSE w,
                     neededChunks, i + 1)

\* update without the early return.
update_noEarlyReturn(w, playerPosition, tex) ==
  LET currentChunk == worldToChunk(playerPosition, w.config)
      coords == WindowCoords(currentChunk, w.config.viewDistance)
      neededChunks == {chunkKey(coords[i]) : i \in 1..Len(coords)}
      moved == [w EXCEPT !.lastPlayerChunk = Fin(currentChunk),
                         !.recomputes = @ + 1]
      swept == UnloadLoop(LoadLoop(moved, coords, 1, tex), neededChunks, 1)
  IN [swept EXCEPT !.chunks = Compact(@)]

\* update with its two loops in the other order.
update_unloadFirst(w, playerPosition, tex) ==
  LET currentChunk == worldToChunk(playerPosition, w.config)
      coords == WindowCoords(currentChunk, w.config.viewDistance)
      neededChunks == {chunkKey(coords[i]) : i \in 1..Len(coords)}
      moved == [w EXCEPT !.lastPlayerChunk = Fin(currentChunk),
                         !.recomputes = @ + 1]
      swept == LoadLoop(UnloadLoop(moved, neededChunks, 1), coords, 1, tex)
  IN IF /\ Num(currentChunk.x) = w.lastPlayerChunk.x
        /\ Num(currentChunk.z) = w.lastPlayerChunk.z
     THEN w
     ELSE [swept EXCEPT !.chunks = Compact(@)]

\* update: lines 40-76.
update(w, playerPosition, tex) ==
  LET currentChunk == worldToChunk(playerPosition, w.config)
      coords == WindowCoords(currentChunk, w.config.viewDistance)
      neededChunks == {chunkKey(coords[i]) : i \in 1..Len(coords)}
      moved == [w EXCEPT !.lastPlayerChunk = Fin(currentChunk),
                         !.recomputes = @ + 1]
      swept == UnloadLoop(LoadLoop(moved, coords, 1, tex), neededChunks, 1)
  IN IF /\ Num(currentChunk.x) = w.lastPlayerChunk.x
        /\ Num(currentChunk.z) = w.lastPlayerChunk.z
     THEN w
     ELSE [swept EXCEPT !.chunks = Compact(@)]

\* forceUpdate without the reset of lastPlayerChunk.
forceUpdate_noReset(w, playerPosition, tex) == update(w, playerPosition, tex)

\* forceUpdate: lines 95-98.
forceUpdate(w, playerPosition, tex) ==
  update([w EXCEPT !.lastPlayerChunk = [x |-> Infinity, z |-> Infinity]],
         playerPosition, tex)

(***************************************************************************)
(* The world as a state machine                                            *)
(***************************************************************************)
\* No call of generate is under way.
Idle == [pc |-> "idle"]

GenKeys ==
  \* The coordinates and configs whose generation is followed step by step.
  LET GenCoords == { [x |-> 0, z |-> 0], [x |-> -1, z |-> 2], [x |-> 24, z |-> 0] }
  IN
           GenCoords \X GenConfigs

\* The number of chunks the step-by-step specification constructs.
MaxGenerations == 3

World ==
  [config |-> config, chunks |-> chunks, lastPlayerChunk |-> lastPlayerChunk,
   scene |-> scene, heap |-> heap, wallMaterial |-> wallMaterial,
   layout |-> layout, log |-> << >>, recomputes |-> recomputes]

\* The state a call leaves behind.
Returns(op, p, w) ==
  /\ chunks' = w.chunks
  /\ lastPlayerChunk' = w.lastPlayerChunk
  /\ scene' = w.scene
  /\ heap' = w.heap
  /\ wallMaterial' = w.wallMaterial
  /\ log' = w.log
  /\ recomputes' = w.recomputes
  /\ lastCall' = [op |-> op, pos |-> p]
  /\ UNCHANGED << config, layout, genVars, otherVars >>

\* new Multiplayer(scene): the field initialisers and lines 129-131 of
\* part_000.
MultiplayerInit ==
  \* Multiplayer.socket while it is null.
  LET NoSocket == [made |-> FALSE, id |-> 0]
  IN
  /\ socket = NoSocket
  /\ connected = FALSE
  /\ localPlayerId = 0
  /\ link = "none"
  /\ moves = << >>
  /\ frames = 0
  /\ avatars = << >>
  /\ avatarScene = << >>
  /\ avatarsMade = 0
  /\ received = [event |-> "none"]

\* null, for a touch identifier: identifiers are 0, 1, 2, ...
Null == -1

\* joystickMaxDist
joystickMaxDist == 50

\* new TouchControls(): the field initialisers, lines 19-36, with nothing
\* on the screen.  A move is num / sqrt(denSq), up to the rounding of the
\* double; look deltas are held in thousandths.
TouchControlsInit ==
  /\ touchControls =
       [joystickActive |-> FALSE, joystickTouchId |-> Null,
        joystickCenter |-> [x |-> 0, y |-> 0], joystickPos |-> [x |-> 0, y |-> 0],
        lookTouchId |-> Null, lastLookPos |-> [x |-> 0, y |-> 0],
        input |-> [moveX |-> [num |-> 0, denSq |-> joystickMaxDist * joystickMaxDist],
                   moveZ |-> [num |-> 0, denSq |-> joystickMaxDist * joystickMaxDist],
                   lookX |-> 0, lookY |-> 0]]
  /\ fingers = << >>
  /\ touchEvent = [type |-> "none"]

\* server/index.js has been loaded (lines 11-35, 77-82): nobody is
\* connected, nothing has been broadcast, the roster interval is set.
ServerInit ==
  \* What Date.now() returns when the server starts.  Real values are about
  \* 1.7 * 10^12; like them, the model's is far above BROADCAST_INTERVAL.
  LET ServerStart == 100000
  IN
  /\ players = << >>
  /\ lastBroadcast = 0
  /\ sockets = {}
  /\ issued = 0
  /\ clock = ServerStart
  /\ nextRoster = ServerStart + ROSTER_INTERVAL
  /\ sent = << >>
  /\ lastEvent = [op |-> "listen", n |-> 0]
  /\ gone = {}
  /\ movedAt = << >>
  /\ throttled = {}

\* Neither hashCoords nor seededRandom has been called by itself.
NoCalls ==
  /\ hash = [pc |-> "none"]
  /\ random = << >>

\* new World(scene, config): lines 13-27, with Chunk's statics unset.
Init ==
  \* The coordinates a window around one of the positions can hold.
  LET Reach(cfg) ==
        UNION { { WindowCoords(worldToChunk(p, cfg), cfg.viewDistance)[i] :
                    i \in 1..((2 * cfg.viewDistance + 1) * (2 * cfg.viewDistance + 1)) } :
                p \in Positions }
  IN
  LET Configs ==
        [chunkSize : {DefaultChunkSize}, viewDistance : 0..MaxViewDistance,
         wallHeight : {DefaultWallHeight}, seed : Seeds]
  IN
  /\ config \in Configs
  /\ layout = [c \in Reach(config) |-> ChildrenOf(c, GenConfigOf(config))]
  /\ chunks = << >>
  /\ lastPlayerChunk = Fin([x |-> 0, z |-> 0])
  /\ scene = << >>
  /\ heap = << >>
  /\ wallMaterial = 0
  /\ lastCall = [op |-> "new", pos |-> [x |-> 0, y |-> 16, z |-> 0]]
  /\ log = << >>
  /\ recomputes = 0
  /\ gen = Idle
  /\ results = [k \in GenKeys |-> {}]
  /\ made = 0
  /\ thresholdLog = [k \in GenKeys |-> {}]
  /\ NoCalls
  /\ ServerInit
  /\ MultiplayerInit
  /\ TouchControlsInit

\* world.update(p), as the frame loop calls it (main.ts line 185).
Update ==
  \E p \in Positions, tex \in 1..TextureVariants :
    LET w == update(World, p, tex)
    IN /\ w.recomputes <= MaxRecomputes
       /\ Returns("update", p, w)

\* world.forceUpdate(p) (main.ts line 123).
ForceUpdate ==
  \E p \in Positions, tex \in 1..TextureVariants :
    LET w == forceUpdate(World, p, tex)
    IN /\ w.recomputes <= MaxRecomputes
       /\ Returns("forceUpdate", p, w)

Next == Update \/ ForceUpdate

Spec == Init /\ [][Next]_vars

(***************************************************************************)
(* Generation step by step                                                 *)
(***************************************************************************)
\* A page that has constructed no chunk yet.
GenSpecInit ==
  /\ config = [chunkSize |-> DefaultChunkSize, viewDistance |-> DefaultViewDistance,
               wallHeight |-> DefaultWallHeight, seed |-> DefaultSeed]
  /\ layout = << >>
  /\ chunks = << >>
  /\ lastPlayerChunk = Fin([x |-> 0, z |-> 0])
  /\ scene = << >>
  /\ heap = << >>
  /\ wallMaterial = 0
  /\ lastCall = [op |-> "new", pos |-> [x |-> 0, y |-> 16, z |-> 0]]
  /\ log = << >>
  /\ recomputes = 0
  /\ gen = Idle
  /\ results = [k \in GenKeys |-> {}]
  /\ made = 0
  /\ thresholdLog = [k \in GenKeys |-> {}]
  /\ NoCalls
  /\ ServerInit
  /\ MultiplayerInit
  /\ TouchControlsInit

\* new Chunk(coord, config) up to the cell sweep.
Construct ==
  \E k \in GenKeys, tex \in 1..TextureVariants :
    LET c == ChunkConstructor(k[1], k[2], wallMaterial, tex)
    IN /\ gen.pc = "idle"
       /\ made < MaxGenerations
       /\ gen' = c.gen
       /\ wallMaterial' = c.wallMaterial
       /\ made' = made + 1
       /\ UNCHANGED << worldVars, results, thresholdLog, otherVars >>

\* One cell of the sweep.
GenCell ==
  /\ gen.pc = "cells"
  /\ gen' = CellStep(gen)
  /\ UNCHANGED << worldVars, wallMaterial, results, made, thresholdLog, otherVars >>

\* One lattice point of addLights.
GenLight ==
  /\ gen.pc = "lights"
  /\ gen' = LightStep(gen)
  /\ UNCHANGED << worldVars, wallMaterial, results, made, thresholdLog, otherVars >>

\* generate and the constructor return.
GenReturn ==
  /\ gen.pc = "done"
  /\ results' = [results EXCEPT ![<< gen.coord, gen.cfg >>] = @ \cup {gen.elements}]
  /\ thresholdLog' =
       [thresholdLog EXCEPT ![<< gen.coord, gen.cfg >>] =
          @ \cup {gen.thresholds[i].value : i \in 1..Len(gen.thresholds)}]
  /\ gen' = Idle
  /\ UNCHANGED << worldVars, wallMaterial, made, otherVars >>

\* The page is loaded anew (or another client starts): the statics of
\* Chunk are unset again.
Reload ==
  /\ gen.pc = "idle"
  /\ wallMaterial # 0
  /\ wallMaterial' = 0
  /\ UNCHANGED << worldVars, genVars, otherVars >>

GenNext == Construct \/ GenCell \/ GenLight \/ GenReturn \/ Reload

GenSpec == GenSpecInit /\ [][GenNext]_vars

(***************************************************************************)
(* hashCoords step by step                                                 *)
(***************************************************************************)
\* No World has been constructed.
NoWorld ==
  /\ config = [chunkSize |-> DefaultChunkSize, viewDistance |-> DefaultViewDistance,
               wallHeight |-> DefaultWallHeight, seed |-> DefaultSeed]
  /\ layout = << >>
  /\ chunks = << >>
  /\ lastPlayerChunk = Fin([x |-> 0, z |-> 0])
  /\ scene = << >>
  /\ heap = << >>
  /\ wallMaterial = 0
  /\ lastCall = [op |-> "new", pos |-> [x |-> 0, y |-> 16, z |-> 0]]
  /\ log = << >>
  /\ recomputes = 0

\* No Chunk has been constructed.
NoGeneration ==
  /\ gen = Idle
  /\ results = [k \in GenKeys |-> {}]
  /\ made = 0
  /\ thresholdLog = [k \in GenKeys |-> {}]

\* A conversion to 32 bits in h << 5 loses something of h.
Wraps(h) ==
  \/ ToInt32(h) # h
  \/ Carry(ToInt32(h).hi * 32, ToInt32(h).lo * 32) # Shl5(h)

\* hashCoords(x, z, seed) is called: let h = seed (line 20).
HashSpecInit ==
  \* The integers hashCoords is called with: small ones of both signs, the
  \* ends of the 32-bit range, and two of more than 40 bits.
  LET HashArgs ==
        { Split(0), Split(1), Split(-1), Split(DefaultSeed), Split(100000000),
          Split(Mask31), Split(-Mask31), [hi |-> -32768, lo |-> 0],
          [hi |-> 33554432, lo |-> 5], [hi |-> -40000000, lo |-> 77] }
  IN
  /\ NoWorld
  /\ NoGeneration
  /\ ServerInit
  /\ MultiplayerInit
  /\ TouchControlsInit
  /\ random = << >>
  /\ \E x \in HashArgs, z \in HashArgs, seed \in HashArgs :
       hash = [pc |-> "foldX", x |-> x, z |-> z, seed |-> seed, h |-> seed,
               wrapped |-> FALSE]

\* h = ((h << 5) - h) + x (line 21)
HashFoldX ==
  /\ hash.pc = "foldX"
  /\ hash' = [hash EXCEPT !.pc = "foldZ", !.h = hashFold(hash.h, hash.x),
                          !.wrapped = Wraps(hash.h)]
  /\ UNCHANGED << worldVars, wallMaterial, genVars, random, serverVars, touchControls, fingers, touchEvent, clientVars >>

\* h = ((h << 5) - h) + z (line 22)
HashFoldZ ==
  /\ hash.pc = "foldZ"
  /\ hash' = [hash EXCEPT !.pc = "mask", !.h = hashFold(hash.h, hash.z),
                          !.wrapped = @ \/ Wraps(hash.h)]
  /\ UNCHANGED << worldVars, wallMaterial, genVars, random, serverVars, touchControls, fingers, touchEvent, clientVars >>

\* return h & 0x7fffffff (line 23)
HashReturn ==
  /\ hash.pc = "mask"
  /\ hash' = [pc |-> "done", x |-> hash.x, z |-> hash.z, seed |-> hash.seed,
              h |-> hash.h, wrapped |-> hash.wrapped \/ ToInt32(hash.h) # hash.h,
              result |-> AndMask31(hash.h)]
  /\ UNCHANGED << worldVars, wallMaterial, genVars, random, serverVars, touchControls, fingers, touchEvent, clientVars >>

HashNext == HashFoldX \/ HashFoldZ \/ HashReturn

HashSpec == HashSpecInit /\ [][HashNext]_vars

(***************************************************************************)
(* seededRandom call by call                                               *)
(***************************************************************************)
\* The number of closures made and the number of calls of each.
MaxSources == 2

MaxCalls == 4

RandomSpecInit ==
  /\ NoWorld
  /\ NoGeneration
  /\ ServerInit
  /\ MultiplayerInit
  /\ TouchControlsInit
  /\ hash = [pc |-> "none"]
  /\ random = << >>

\* const random = seededRandom(seed)
SeededRandom ==
  \* seededRandom(seed): the closure over seed (lines 11-16).
  LET seededRandom(seed) ==
        [seed |-> seed, state |-> seed, calls |-> 0, prev |-> seed, value |-> Quotient(0)]
  IN
  \* The seeds closures are made with: hashCoords(0, 0, 42), the last seed for
  \* which the product is below 2^53 and the second after it, the seed the
  \* exact recurrence takes to 2^31 - 1, and the ends of the 31-bit range.
  LET RandomSeeds == { 0, 40362, 8162278, 8162280, 230538014, 2147483646, Mask31 }
  IN
  \E seed \in RandomSeeds :
    /\ Len(random) < MaxSources
    /\ random' = Append(random, seededRandom(seed))
    /\ UNCHANGED << worldVars, wallMaterial, genVars, hash, serverVars, touchControls, fingers, touchEvent, clientVars >>

\* random()
RandomCall ==
  \* One call of the closure (lines 13-14): prev and calls are history.
  LET RandomCallOf(r) ==
        LET s == seededRandomNext(r.state)
        IN [r EXCEPT !.state = s, !.prev = r.state, !.calls = @ + 1, !.value = Quotient(s)]
  IN
  \E i \in 1..Len(random) :
    /\ random[i].calls < MaxCalls
    /\ random' = [random EXCEPT ![i] = RandomCallOf(@)]
    /\ UNCHANGED << worldVars, wallMaterial, genVars, hash, serverVars, touchControls, fingers, touchEvent, clientVars >>

RandomNext == SeededRandom \/ RandomCall

RandomSpec == RandomSpecInit /\ [][RandomNext]_vars

(***************************************************************************)
(* server/index.js: the relay                                              *)
(*                                                                         *)
(* Node runs one handler at a time, to its end: each handler is one step.  *)
(* socket.io hands every socket an id of its own, has the socket among     *)
(* io's sockets when 'connection' fires and no longer when 'disconnect'    *)
(* fires; socket.emit reaches that socket, socket.broadcast.emit every     *)
(* connected socket but that one, io.emit every connected socket.          *)
(***************************************************************************)
\* The payloads of 'move': positions in tenths, rotations in hundredths of
\* a radian.
MovePayloads ==
  { [position |-> [x |-> 400, y |-> 16, z |-> 0], rotation |-> 157],
    [position |-> [x |-> -1, y |-> 16, z |-> -1], rotation |-> -30],
    [position |-> [x |-> 400, y |-> 16, z |-> 0], rotation |-> 0, chunk |-> "1,0"] }

\* The time that passes between one handler and the next, in ms.
Delays == { 25, 50 }

\* The server as a record; sent starts empty for each handler.
Server ==
  [players |-> players, lastBroadcast |-> lastBroadcast, sockets |-> sockets,
   sent |-> << >>]

\* players.has(key)
PlayersHas(entries, key) == \E i \in 1..Len(entries) : entries[i].key = key

\* players.get(key), asked only for a key that is there.
PlayersGet(entries, key) ==
  entries[CHOOSE i \in 1..Len(entries) : entries[i].key = key].value

\* players.set(key, value)
PlayersSet(entries, key, value) ==
  IF PlayersHas(entries, key)
  THEN [i \in 1..Len(entries) |->
          IF entries[i].key = key THEN [key |-> key, value |-> value] ELSE entries[i]]
  ELSE Append(entries, [key |-> key, value |-> value])

\* players.delete(key)
PlayersDelete(entries, key) == SelectSeq(entries, LAMBDA e : e.key # key)

\* Array.from(players.values())
PlayersValues(entries) == [i \in 1..Len(entries) |-> entries[i].value]

\* An emission: the event, its argument and the sockets it goes to; held is
\* history, the keys of players at the moment of the call.
Emit(s, event, data, to) ==
  [s EXCEPT !.sent = Append(@, [event |-> event, data |-> data, to |-> to,
                                held |-> {s.players[i].key : i \in 1..Len(s.players)}])]

\* socket.emit / socket.broadcast.emit / io.emit
SocketEmit(s, id, event, data) == Emit(s, event, data, {id})

BroadcastEmit(s, id, event, data) == Emit(s, event, data, s.sockets \ {id})

IoEmit(s, event, data) == Emit(s, event, data, s.sockets)

\* The connection handler with the roster sent before the player is stored.
onConnection_rosterFirst(s, id) ==
  LET state == [id |-> id, position |-> [x |-> 0, y |-> 16, z |-> 0], rotation |-> 0]
      s1 == SocketEmit(s, id, "players", PlayersValues(s.players))
      s2 == [s1 EXCEPT !.players = PlayersSet(@, id, state)]
  IN BroadcastEmit(s2, id, "player_joined", PlayersGet(s2.players, id))

\* io.on('connection'): lines 37-51.
onConnection(s, id) ==
  LET state == [id |-> id, position |-> [x |-> 0, y |-> 16, z |-> 0], rotation |-> 0]
      s1 == [s EXCEPT !.players = PlayersSet(@, id, state)]
      s2 == SocketEmit(s1, id, "players", PlayersValues(s1.players))
  IN BroadcastEmit(s2, id, "player_joined", PlayersGet(s2.players, id))

\* The move handler storing the payload only when it also broadcasts.
onMove_storeWhenBroadcast(s, id, data, now) ==
  IF ~PlayersHas(s.players, id) THEN s
  ELSE LET player == [PlayersGet(s.players, id) EXCEPT
                        !.position = data.position, !.rotation = data.rotation]
       IN IF now - s.lastBroadcast > BROADCAST_INTERVAL
          THEN [BroadcastEmit([s EXCEPT !.players = PlayersSet(@, id, player)],
                              id, "player_moved", player)
                  EXCEPT !.lastBroadcast = now]
          ELSE s

\* The move handler without lastBroadcast = now.
onMove_noStamp(s, id, data, now) ==
  IF ~PlayersHas(s.players, id) THEN s
  ELSE LET player == [PlayersGet(s.players, id) EXCEPT
                        !.position = data.position, !.rotation = data.rotation]
           s1 == [s EXCEPT !.players = PlayersSet(@, id, player)]
       IN IF now - s1.lastBroadcast > BROADCAST_INTERVAL
          THEN BroadcastEmit(s1, id, "player_moved", player)
          ELSE s1

\* The move handler making a state for a socket that has none.
onMove_upsert(s, id, data, now) ==
  LET old == IF PlayersHas(s.players, id) THEN PlayersGet(s.players, id)
             ELSE [id |-> id, position |-> [x |-> 0, y |-> 16, z |-> 0], rotation |-> 0]
      player == [old EXCEPT !.position = data.position, !.rotation = data.rotation]
      s1 == [s EXCEPT !.players = PlayersSet(@, id, player)]
  IN IF now - s1.lastBroadcast > BROADCAST_INTERVAL
     THEN [BroadcastEmit(s1, id, "player_moved", player)
             EXCEPT !.lastBroadcast = now]
     ELSE s1

\* The move handler storing the payload as the player's state.
onMove_storeData(s, id, data, now) ==
  IF ~PlayersHas(s.players, id) THEN s
  ELSE LET player == [id |-> id] @@ data
           s1 == [s EXCEPT !.players = PlayersSet(@, id, player)]
       IN IF now - s1.lastBroadcast > BROADCAST_INTERVAL
          THEN [BroadcastEmit(s1, id, "player_moved", player)
                  EXCEPT !.lastBroadcast = now]
          ELSE s1

\* socket.on('move'): lines 54-67.  now is what Date.now() returns.
onMove(s, id, data, now) ==
  IF ~PlayersHas(s.players, id) THEN s
  ELSE LET player == [PlayersGet(s.players, id) EXCEPT
                        !.position = data.position, !.rotation = data.rotation]
           s1 == [s EXCEPT !.players = PlayersSet(@, id, player)]
       IN IF now - s1.lastBroadcast > BROADCAST_INTERVAL
          THEN [BroadcastEmit(s1, id, "player_moved", player)
                  EXCEPT !.lastBroadcast = now]
          ELSE s1

\* The disconnect handler without players.delete.
onDisconnect_keepState(s, id) == IoEmit(s, "player_left", id)

\* socket.on('disconnect'): lines 70-74.
onDisconnect(s, id) ==
  IoEmit([s EXCEPT !.players = PlayersDelete(@, id)], "player_left", id)

\* The interval's callback sending nothing.
rosterBroadcast_silent(s) == s

\* The interval's callback without its test.
rosterBroadcast_unguarded(s) == IoEmit(s, "players", PlayersValues(s.players))

\* The callback of the 5000 ms interval: lines 77-82.
rosterBroadcast(s) ==
  IF Len(s.players) > 0
  THEN IoEmit(s, "players", PlayersValues(s.players))
  ELSE s

\* The state a handler that ran at the time now leaves behind.
Handled(event, now, s) ==
  \* The history of the moves that were not broadcast, after a handler: a
  \* move replaces the mover's entry, or clears it when player_moved went
  \* out; a disconnect drops the socket's entry; a roster marks what it
  \* carried.
  LET Throttled(ev, at, st) ==
        \* Whether an emission of the handler carried the position and rotation of
        \* a move to every socket other than the mover's.
        LET Carried(emitted, to, id, data) ==
              \E j \in 1..Len(emitted) :
                /\ emitted[j].event = "players"
                /\ to \ {id} \subseteq emitted[j].to
                /\ \E k \in 1..Len(emitted[j].data) :
                     /\ emitted[j].data[k].id = id
                     /\ emitted[j].data[k].position = data.position
                     /\ emitted[j].data[k].rotation = data.rotation
        IN
        CASE ev.op = "move" ->
               {e \in throttled : e.id # ev.id}
                 \cup (IF \E j \in 1..Len(st.sent) : st.sent[j].event = "player_moved"
                       THEN {}
                       ELSE {[id |-> ev.id, data |-> ev.data, at |-> at,
                              delivered |-> FALSE]})
          [] ev.op = "disconnect" -> {e \in throttled : e.id # ev.id}
          [] ev.op = "roster" ->
               {[e EXCEPT !.delivered = @ \/ Carried(st.sent, st.sockets, e.id, e.data)] :
                  e \in throttled}
          [] OTHER -> throttled
  IN
  /\ players' = s.players
  /\ lastBroadcast' = s.lastBroadcast
  /\ sockets' = s.sockets
  /\ sent' = s.sent
  /\ clock' = now
  /\ lastEvent' = event
  /\ movedAt' = movedAt \o [i \in 1..Len(SelectSeq(s.sent, LAMBDA e : e.event = "player_moved"))
                             |-> now]
  /\ throttled' = Throttled(event, now, s)
  /\ UNCHANGED << worldVars, wallMaterial, genVars, calcVars, clientVars, touchControls, fingers, touchEvent >>

ServerSpecInit ==
  /\ NoWorld
  /\ NoGeneration
  /\ NoCalls
  /\ ServerInit
  /\ MultiplayerInit
  /\ TouchControlsInit

\* A client connects, some time after the last handler ran: its socket
\* gets the next id and joins io's sockets.
Connection ==
  \E d \in Delays :
    LET id == issued + 1
    IN /\ issued < MaxConnections
       /\ lastEvent.n < MaxEvents
       /\ issued' = id
       /\ Handled([op |-> "connection", id |-> id, n |-> lastEvent.n + 1], clock + d,
                  onConnection([Server EXCEPT !.sockets = @ \cup {id}], id))
       /\ UNCHANGED << nextRoster, gone >>

\* A connected client's 'move' arrives.
Move ==
  \E id \in sockets, data \in MovePayloads, d \in Delays :
    /\ lastEvent.n < MaxEvents
    /\ Handled([op |-> "move", id |-> id, data |-> data, n |-> lastEvent.n + 1],
               clock + d,
               onMove(Server, id, data, clock + d))
    /\ UNCHANGED << issued, nextRoster, gone >>

\* A 'move' that the listener of a socket gets after the socket's disconnect
\* handler has run: the closure of lines 54-67 is the same.
LateMove ==
  \E id \in gone, data \in MovePayloads, d \in Delays :
    /\ lastEvent.n < MaxEvents
    /\ Handled([op |-> "lateMove", id |-> id, data |-> data, n |-> lastEvent.n + 1],
               clock + d,
               onMove(Server, id, data, clock + d))
    /\ UNCHANGED << issued, nextRoster, gone >>

\* A socket closes: it has left io's sockets when the handler runs.
Disconnect ==
  \E id \in sockets, d \in Delays :
    /\ lastEvent.n < MaxEvents
    /\ gone' = gone \cup {id}
    /\ Handled([op |-> "disconnect", id |-> id, n |-> lastEvent.n + 1], clock + d,
               onDisconnect([Server EXCEPT !.sockets = @ \ {id}], id))
    /\ UNCHANGED << issued, nextRoster >>

\* The roster interval fires when it is due, or at once if it is overdue;
\* it still fires once after the last of the other events.
RosterTick ==
  /\ lastEvent.n <= MaxEvents
  /\ nextRoster' = nextRoster + ROSTER_INTERVAL
  /\ Handled([op |-> "roster", n |-> lastEvent.n + 1],
             IF clock >= nextRoster THEN clock ELSE nextRoster,
             rosterBroadcast(Server))
  /\ UNCHANGED << issued, gone >>

ServerNext == Connection \/ Move \/ LateMove \/ Disconnect \/ RosterTick

ServerSpec == ServerSpecInit /\ [][ServerNext]_vars

\* setInterval calls the roster callback whenever it is due (lines 77-82):
\* the tick does not stay enabled for ever without firing.
ServerFairSpec == ServerSpec /\ WF_vars(RosterTick)

(***************************************************************************)
(* main.ts and Multiplayer.ts: the game client                             *)
(*                                                                         *)
(* The browser runs one callback at a time: the constructor of             *)
(* BackroomsGame, each animation frame and each socket event is one step.  *)
(* The socket is socket.io's: it fires 'connect' with a new id whenever a  *)
(* connection is made, 'disconnect' when one is lost and 'connect_error'   *)
(* when an attempt fails; the model lets them come in any order.           *)
(***************************************************************************)
\* The config main.ts constructs the World with (lines 68-71), over
\* DEFAULT_CONFIG.
GameConfig ==
  [chunkSize |-> DefaultChunkSize, viewDistance |-> DefaultViewDistance,
   wallHeight |-> DefaultWallHeight, seed |-> DefaultSeed]

\* Where the frames find the player: at the start position, in the chunk
\* next to it, and just below zero on both axes.
ClientPositions ==
  { [x |-> 0, y |-> 16, z |-> 0],
    [x |-> 400, y |-> 16, z |-> 0],
    [x |-> -1, y |-> 16, z |-> -1] }

\* The frames animated, and the connections the socket makes.
MaxFrames == 3

MaxSessions == 2

\* The Multiplayer object as a record.
Multiplayer ==
  [socket |-> socket, connected |-> connected, localPlayerId |-> localPlayerId,
   players |-> avatars, scene |-> avatarScene, made |-> avatarsMade]

\* connect(): lines 132-184 of part_000.  When io() throws the catch leaves
\* the socket as it was.
connect(mp, ioThrows) ==
  IF ioThrows THEN mp ELSE [mp EXCEPT !.socket = [made |-> TRUE, id |-> 0]]

\* The 'connect' handler: lines 144-148.  id is the socket's new id.
onConnect(mp, id) ==
  [mp EXCEPT !.socket.id = id, !.connected = TRUE, !.localPlayerId = id]

\* The 'disconnect' handler (lines 150-153) and the 'connect_error' handler
\* (lines 155-158).
onSocketDisconnect(mp) == [mp EXCEPT !.connected = FALSE]

onConnectError(mp) == [mp EXCEPT !.connected = FALSE]

\* sendPosition with the test of the socket only.
sendPosition_whenSocket(mp, position, rotation) ==
  IF ~mp.socket.made THEN << >>
  ELSE << [event |-> "move",
           data |-> [position |-> [x |-> position.x, y |-> position.y, z |-> position.z],
                     rotation |-> rotation]] >>

\* sendPosition: lines 190-197.  What it emits on the socket.
sendPosition(mp, position, rotation) ==
  IF ~mp.socket.made \/ ~mp.connected THEN << >>
  ELSE << [event |-> "move",
           data |-> [position |-> [x |-> position.x, y |-> position.y, z |-> position.z],
                     rotation |-> rotation]] >>

\* The state a handler of the socket leaves behind.
SocketHandled(event, mp) ==
  /\ socket' = mp.socket
  /\ connected' = mp.connected
  /\ localPlayerId' = mp.localPlayerId
  /\ link' = event
  /\ UNCHANGED << worldVars, wallMaterial, genVars, calcVars, serverVars, touchControls, fingers, touchEvent, moves, frames,
                  avatars, avatarScene, avatarsMade, received >>

\* new BackroomsGame() up to new Multiplayer (main.ts lines 66-72).
ClientSpecInit ==
  \* The coordinates a window around one of the client's positions can hold.
  LET ClientReach ==
        UNION { { WindowCoords(worldToChunk(p, GameConfig), GameConfig.viewDistance)[i] :
                    i \in 1..((2 * GameConfig.viewDistance + 1)
                              * (2 * GameConfig.viewDistance + 1)) } :
                p \in ClientPositions }
  IN
  /\ config = GameConfig
  /\ layout = [c \in ClientReach |-> ChildrenOf(c, GenConfigOf(GameConfig))]
  /\ chunks = << >>
  /\ lastPlayerChunk = Fin([x |-> 0, z |-> 0])
  /\ scene = << >>
  /\ heap = << >>
  /\ wallMaterial = 0
  /\ lastCall = [op |-> "new", pos |-> [x |-> 0, y |-> 16, z |-> 0]]
  /\ log = << >>
  /\ recomputes = 0
  /\ NoGeneration
  /\ NoCalls
  /\ ServerInit
  /\ MultiplayerInit
  /\ TouchControlsInit

\* The rest of the constructor: multiplayer.connect() and
\* world.forceUpdate(player.position) (main.ts lines 112-123).
Start ==
  \E ioThrows \in BOOLEAN, tex \in 1..TextureVariants :
    LET mp == connect(Multiplayer, ioThrows)
        p == [x |-> 0, y |-> 16, z |-> 0]
        w == forceUpdate(World, p, tex)
    IN /\ lastCall.op = "new"
       /\ socket' = mp.socket
       /\ connected' = mp.connected
       /\ localPlayerId' = mp.localPlayerId
       /\ chunks' = w.chunks
       /\ lastPlayerChunk' = w.lastPlayerChunk
       /\ scene' = w.scene
       /\ heap' = w.heap
       /\ wallMaterial' = w.wallMaterial
       /\ log' = w.log
       /\ recomputes' = w.recomputes
       /\ lastCall' = [op |-> "forceUpdate", pos |-> p]
       /\ UNCHANGED << config, layout, genVars, calcVars, serverVars, touchControls, fingers, touchEvent, link, moves, frames,
                       avatars, avatarScene, avatarsMade, received >>

\* animate(): the player has moved to p, then world.update and
\* multiplayer.sendPosition (main.ts lines 181-191).
Frame ==
  \* What getRotation returns, in hundredths of a radian.
  LET ClientRotations == { 0, 157 }
  IN
  \E p \in ClientPositions, rotation \in ClientRotations, tex \in 1..TextureVariants :
    LET w == update(World, p, tex)
    IN /\ lastCall.op # "new"
       /\ frames < MaxFrames
       /\ frames' = frames + 1
       /\ chunks' = w.chunks
       /\ lastPlayerChunk' = w.lastPlayerChunk
       /\ scene' = w.scene
       /\ heap' = w.heap
       /\ wallMaterial' = w.wallMaterial
       /\ log' = w.log
       /\ recomputes' = w.recomputes
       /\ lastCall' = [op |-> "update", pos |-> p]
       /\ moves' = sendPosition(Multiplayer, p, rotation)
       /\ UNCHANGED << config, layout, genVars, calcVars, serverVars, touchControls, fingers, touchEvent,
                       socket, connected, localPlayerId, link, avatars, avatarScene, avatarsMade, received >>

\* The socket connects (again): 'connect'.
SocketConnect ==
  /\ socket.made
  /\ socket.id < MaxSessions
  /\ SocketHandled("connect", onConnect(Multiplayer, socket.id + 1))

\* 'disconnect'
SocketDisconnect ==
  /\ socket.made
  /\ SocketHandled("disconnect", onSocketDisconnect(Multiplayer))

\* 'connect_error'
SocketConnectError ==
  /\ socket.made
  /\ SocketHandled("connect_error", onConnectError(Multiplayer))

ClientNext == Start \/ Frame \/ SocketConnect \/ SocketDisconnect \/ SocketConnectError

ClientSpec == ClientSpecInit /\ [][ClientNext]_vars

(***************************************************************************)
(* Multiplayer.ts: the avatars of the other players                        *)
(*                                                                         *)
(* The handlers of the socket, each one step, in whatever order the events *)
(* come.  The Map of avatars is held like World's Map of chunks (a delete  *)
(* during an iteration empties the entry in place); the value of an entry  *)
(* is the avatar: its identity and its rotation.y.  The avatar's position, *)
(* which lerp moves a tenth of the way at a time, is not held.             *)
(***************************************************************************)
\* The ids of sockets that events name: 1 .. MaxSessions are the ids this
\* client's own socket gets, the next one is another player's.
PeerIds == 1..(MaxSessions + 1)

\* The avatars the model lets the client create.
MaxAvatars == 3

\* The PlayerStates of the events, rotation in hundredths of a radian.
PlayerStates ==
  [id : PeerIds, position : {[x |-> 400, y |-> 16, z |-> 0]}, rotation : {0, 157}]

\* createPlayerAvatar() and the two lines after it: the next identity.
Avatar(mp, rotation) == [obj |-> mp.made + 1, rotation |-> rotation]

\* this.players.get(id), asked only for an id that is there.
AvatarOf(mp, id) ==
  mp.players[CHOOSE i \in 1..Len(mp.players) :
               ~mp.players[i].empty /\ mp.players[i].key = id].chunk

\* updatePlayerPosition: lines 236-252.
updatePlayerPosition(mp, player) ==
  IF player.id = mp.localPlayerId THEN mp
  ELSE LET fresh == ~Has(mp.players, player.id)
           avatar == IF fresh THEN Avatar(mp, 0) ELSE AvatarOf(mp, player.id)
           turned == [avatar EXCEPT !.rotation = player.rotation]
       IN [mp EXCEPT !.players = MapSet(@, player.id, turned),
                     !.scene = IF fresh THEN SceneAdd(@, avatar.obj) ELSE @,
                     !.made = IF fresh THEN @ + 1 ELSE @]

\* The state a handler of the socket leaves behind.
Received(event, mp) ==
  /\ mp.made <= MaxAvatars
  /\ socket' = mp.socket
  /\ connected' = mp.connected
  /\ localPlayerId' = mp.localPlayerId
  /\ avatars' = mp.players
  /\ avatarScene' = mp.scene
  /\ avatarsMade' = mp.made
  /\ link' = event.event
  /\ received' = event
  /\ UNCHANGED << worldVars, wallMaterial, genVars, calcVars, serverVars, touchControls, fingers, touchEvent, moves, frames >>

\* new Multiplayer(scene) in a page whose world is left out.
MultiplayerSpecInit ==
  /\ NoWorld
  /\ NoGeneration
  /\ NoCalls
  /\ ServerInit
  /\ MultiplayerInit
  /\ TouchControlsInit

\* multiplayer.connect() (main.ts line 113).
Connect ==
  \E ioThrows \in BOOLEAN :
    /\ received.event = "none"
    /\ ~socket.made
    /\ Received([event |-> "connect()"], connect(Multiplayer, ioThrows))

\* 'connect': the socket has its next id.
OnConnect ==
  /\ socket.made
  /\ socket.id < MaxSessions
  /\ Received([event |-> "connect", id |-> socket.id + 1],
              onConnect(Multiplayer, socket.id + 1))

\* 'disconnect'
OnDisconnect ==
  /\ socket.made
  /\ Received([event |-> "disconnect"], onSocketDisconnect(Multiplayer))

\* 'connect_error'
OnConnectError ==
  /\ socket.made
  /\ Received([event |-> "connect_error"], onConnectError(Multiplayer))

\* 'players'
OnPlayers ==
  \* The second loop of updatePlayers from the i-th player on: lines 210-213.
  LET RECURSIVE UpdateLoop(_, _, _)
      UpdateLoop(mp, roster, i) ==
        IF i > Len(roster) THEN mp
        ELSE UpdateLoop(IF roster[i].id = mp.localPlayerId THEN mp
                        ELSE updatePlayerPosition(mp, roster[i]),
                        roster, i + 1)
  IN
  \* The first loop of updatePlayers from the i-th entry on: lines 201-207.
  LET RECURSIVE RemoveLoop(_, _, _)
      RemoveLoop(mp, currentIds, i) ==
        IF i > Len(mp.players) THEN mp
        ELSE LET e == mp.players[i]
             IN RemoveLoop(IF ~e.empty /\ e.key \notin currentIds
                           THEN [mp EXCEPT !.scene = SceneRemove(@, e.chunk.obj),
                                           !.players = MapDelete(@, e.key)]
                           ELSE mp,
                           currentIds, i + 1)
  IN
  \* updatePlayers: lines 199-214.
  LET updatePlayers(mp, roster) ==
        LET currentIds == {roster[i].id : i \in 1..Len(roster)}
            removed == RemoveLoop(mp, currentIds, 1)
        IN UpdateLoop([removed EXCEPT !.players = Compact(@)], roster, 1)
  IN
  \* The rosters of the `players` event: the ids in ascending order, everyone
  \* turned the same way.
  LET Rosters ==
        { SelectSeq([i \in 1..(MaxSessions + 1) |->
                       [id |-> i, position |-> [x |-> 400, y |-> 16, z |-> 0], rotation |-> r]],
                    LAMBDA ps : ps.id \in ids) :
            ids \in SUBSET PeerIds, r \in {0} }
  IN
  \E roster \in Rosters :
    /\ socket.made
    /\ Received([event |-> "players", data |-> roster], updatePlayers(Multiplayer, roster))

\* 'player_joined'
OnPlayerJoined ==
  \* addPlayer: lines 216-226.
  LET addPlayer(mp, player) ==
        IF player.id = mp.localPlayerId \/ Has(mp.players, player.id) THEN mp
        ELSE LET avatar == Avatar(mp, player.rotation)
             IN [mp EXCEPT !.players = MapSet(@, player.id, avatar),
                           !.scene = SceneAdd(@, avatar.obj),
                           !.made = @ + 1]
  IN
  \E player \in PlayerStates :
    /\ socket.made
    /\ Received([event |-> "player_joined", data |-> player], addPlayer(Multiplayer, player))

\* 'player_left'
OnPlayerLeft ==
  \* removePlayer: lines 228-234.
  LET removePlayer(mp, playerId) ==
        IF ~Has(mp.players, playerId) THEN mp
        ELSE [mp EXCEPT !.scene = SceneRemove(@, AvatarOf(mp, playerId).obj),
                        !.players = Compact(MapDelete(@, playerId))]
  IN
  \E playerId \in PeerIds :
    /\ socket.made
    /\ Received([event |-> "player_left", data |-> playerId],
                removePlayer(Multiplayer, playerId))

\* 'player_moved'
OnPlayerMoved ==
  \E player \in PlayerStates :
    /\ socket.made
    /\ Received([event |-> "player_moved", data |-> player],
                updatePlayerPosition(Multiplayer, player))

MultiplayerNext ==
  \/ Connect \/ OnConnect \/ OnDisconnect \/ OnConnectError
  \/ OnPlayers \/ OnPlayerJoined \/ OnPlayerLeft \/ OnPlayerMoved

MultiplayerSpec == MultiplayerSpecInit /\ [][MultiplayerNext]_vars

(***************************************************************************)
(* TouchControls.ts                                                        *)
(*                                                                         *)
(* Each TouchEvent is one step.  The browser gives every touch on the      *)
(* screen an identifier no other touch on the screen has, reports the      *)
(* start of a touch once, and its moves and its end only while it is on    *)
(* the screen.                                                             *)
(***************************************************************************)
\* window.innerWidth
innerWidth == 800

\* The identifiers the browser hands out.
MaxTouches == 2

\* The changedTouches of an event: one or two touches with different
\* identifiers.
ChangedTouches(ids) ==
  \* Where fingers go down and move to: two points of the left half, the
  \* second on its last column, and the first column of the right half.
  LET TouchPoints ==
        { [x |-> 100, y |-> 300], [x |-> 399, y |-> 340], [x |-> 400, y |-> 300] }
  IN
  LET touches == { [identifier |-> i, clientX |-> p.x, clientY |-> p.y] :
                     i \in ids, p \in TouchPoints }
  IN { << t >> : t \in touches }
     \cup { c \in { << t, u >> : t \in touches, u \in touches } :
              c[1].identifier # c[2].identifier }

\* The body of the loop of onTouchStart with the test of the half only.
touchStartOne_rebind(tc, touch) ==
  IF 2 * touch.clientX < innerWidth
  THEN [tc EXCEPT !.joystickTouchId = touch.identifier,
                  !.joystickActive = TRUE,
                  !.joystickCenter = [x |-> touch.clientX, y |-> touch.clientY],
                  !.joystickPos = [x |-> touch.clientX, y |-> touch.clientY]]
  ELSE [tc EXCEPT !.lookTouchId = touch.identifier,
                  !.lastLookPos = [x |-> touch.clientX, y |-> touch.clientY]]

\* The body of the loop of onTouchStart: lines 74-91.
touchStartOne(tc, touch) ==
  IF 2 * touch.clientX < innerWidth /\ tc.joystickTouchId = Null
  THEN [tc EXCEPT !.joystickTouchId = touch.identifier,
                  !.joystickActive = TRUE,
                  !.joystickCenter = [x |-> touch.clientX, y |-> touch.clientY],
                  !.joystickPos = [x |-> touch.clientX, y |-> touch.clientY]]
  ELSE IF 2 * touch.clientX >= innerWidth /\ tc.lookTouchId = Null
  THEN [tc EXCEPT !.lookTouchId = touch.identifier,
                  !.lastLookPos = [x |-> touch.clientX, y |-> touch.clientY]]
  ELSE tc

\* onTouchStart, onTouchMove and onTouchEnd: the loop over changedTouches.
onTouchStart(tc, changed) ==
  IF Len(changed) = 1 THEN touchStartOne(tc, changed[1])
  ELSE touchStartOne(touchStartOne(tc, changed[1]), changed[2])

onTouchMove(tc, changed) ==
  \* The body of the loop of onTouchMove: lines 96-130.
  LET touchMoveOne(c, touch) ==
        \* The look part of the loop of onTouchMove: lines 120-129, with
        \* lookSensitivity = 0.003.
        LET lookMove(l, t) ==
              [l EXCEPT !.input.lookX = 3 * (t.clientX - l.lastLookPos.x),
                         !.input.lookY = 3 * (t.clientY - l.lastLookPos.y),
                         !.lastLookPos = [x |-> t.clientX, y |-> t.clientY]]
        IN
        \* The joystick part of the loop of onTouchMove: lines 99-117.  Beyond
        \* joystickMaxDist the thumb is put on the circle, and the move is
        \* (dx / dist, dy / dist); within it the move is (dx, dy) / joystickMaxDist.
        \* joystickPos is held as the touch it follows, with whether it was
        \* pulled back onto the circle.
        LET joystickMove(j, t) ==
              LET dx == t.clientX - j.joystickCenter.x
                  dy == t.clientY - j.joystickCenter.y
                  distSq == dx * dx + dy * dy
                  clamped == distSq > joystickMaxDist * joystickMaxDist
                  denSq == IF clamped THEN distSq ELSE joystickMaxDist * joystickMaxDist
              IN [j EXCEPT !.joystickPos = [x |-> t.clientX, y |-> t.clientY,
                                             clamped |-> clamped],
                            !.input.moveX = [num |-> dx, denSq |-> denSq],
                            !.input.moveZ = [num |-> dy, denSq |-> denSq]]
        IN
        LET moved == IF touch.identifier = c.joystickTouchId THEN joystickMove(c, touch) ELSE c
        IN IF touch.identifier = moved.lookTouchId THEN lookMove(moved, touch) ELSE moved
  IN
  IF Len(changed) = 1 THEN touchMoveOne(tc, changed[1])
  ELSE touchMoveOne(touchMoveOne(tc, changed[1]), changed[2])

onTouchEnd(tc, changed) ==
  \* The body of the loop of onTouchEnd: lines 136-150.
  LET touchEndOne(c, touch) ==
        LET released == IF touch.identifier = c.joystickTouchId
                        THEN [c EXCEPT !.joystickTouchId = Null,
                                        !.joystickActive = FALSE,
                                        !.input.moveX = [num |-> 0, denSq |-> joystickMaxDist * joystickMaxDist],
                                        !.input.moveZ = [num |-> 0, denSq |-> joystickMaxDist * joystickMaxDist]]
                        ELSE c
        IN IF touch.identifier = released.lookTouchId
           THEN [released EXCEPT !.lookTouchId = Null,
                                 !.input.lookX = 0,
                                 !.input.lookY = 0]
           ELSE released
  IN
  IF Len(changed) = 1 THEN touchEndOne(tc, changed[1])
  ELSE touchEndOne(touchEndOne(tc, changed[1]), changed[2])

\* The touches on the screen after those of an event have gone down or
\* moved, and after they have gone up.
Placed(on, changed) ==
  [i \in DOMAIN on \cup {changed[k].identifier : k \in 1..Len(changed)} |->
     IF \E k \in 1..Len(changed) : changed[k].identifier = i
     THEN LET k == CHOOSE k \in 1..Len(changed) : changed[k].identifier = i
          IN [x |-> changed[k].clientX, y |-> changed[k].clientY]
     ELSE on[i]]

\* The state a listener leaves behind; the event is kept with the bindings
\* it found.
Touched(type, changed, tc, on) ==
  /\ touchControls' = tc
  /\ fingers' = on
  /\ touchEvent' = [type |-> type, changedTouches |-> changed,
                    joystickTouchId |-> touchControls.joystickTouchId,
                    lookTouchId |-> touchControls.lookTouchId]
  /\ UNCHANGED << worldVars, wallMaterial, genVars, calcVars, serverVars, clientVars >>

\* A page with TouchControls and nothing else.
TouchSpecInit ==
  /\ NoWorld
  /\ NoGeneration
  /\ NoCalls
  /\ ServerInit
  /\ MultiplayerInit
  /\ TouchControlsInit

\* 'touchstart': fingers that were not on the screen go down.
TouchStart ==
  LET TouchIds == 0..(MaxTouches - 1)
  IN
  \E changed \in ChangedTouches(TouchIds \ DOMAIN fingers) :
    Touched("touchstart", changed, onTouchStart(touchControls, changed),
            Placed(fingers, changed))

\* 'touchmove': fingers on the screen move.
TouchMove ==
  \E changed \in ChangedTouches(DOMAIN fingers) :
    Touched("touchmove", changed, onTouchMove(touchControls, changed),
            Placed(fingers, changed))

\* 'touchend' and 'touchcancel': fingers leave the screen where they are.
TouchEnd ==
  LET Lifted(on, changed) ==
        [i \in DOMAIN on \ {changed[k].identifier : k \in 1..Len(changed)} |-> on[i]]
  IN
  \E type \in {"touchend", "touchcancel"}, changed \in ChangedTouches(DOMAIN fingers) :
    /\ \A k \in 1..Len(changed) :
         fingers[changed[k].identifier] = [x |-> changed[k].clientX, y |-> changed[k].clientY]
    /\ Touched(type, changed, onTouchEnd(touchControls, changed), Lifted(fingers, changed))

\* touchControls.update() in a frame (main.ts line 178).
TouchUpdate ==
  \* update(), of which the canvas is left out: lines 173-175.
  LET touchUpdate(tc) == [tc EXCEPT !.input.lookX = 0, !.input.lookY = 0]
  IN
  /\ touchEvent.type # "none"
  /\ touchControls' = touchUpdate(touchControls)
  /\ touchEvent' = [type |-> "update"]
  /\ UNCHANGED << worldVars, wallMaterial, genVars, calcVars, serverVars, clientVars, fingers >>

TouchNext == TouchStart \/ TouchMove \/ TouchEnd \/ TouchUpdate

TouchSpec == TouchSpecInit /\ [][TouchNext]_vars

(***************************************************************************)
(* Notions the properties are stated in                                    *)
(***************************************************************************)
\* The keys of the chunk store.
KeySet == {chunks[i].key : i \in 1..Len(chunks)}

\* The Active Window: the square of side 2 * viewDistance + 1 centred on a
\* chunk coordinate, as a set of keys.
ActiveWindow(centre, viewDistance) ==
  (centre.x - viewDistance .. centre.x + viewDistance)
    \X (centre.z - viewDistance .. centre.z + viewDistance)

\* floor(p / chunkSize) for the position of the last call.
ObserverChunk == worldToChunk(lastCall.pos, config)

\* The identities of the chunks in the store.
Resident == {chunks[i].chunk : i \in 1..Len(chunks)}

\* The keys (or identities) of the load or unload calls of the last call.
Logged(events, op) == {j \in 1..Len(events) : events[j][1] = op}

Abs(n) == IF n < 0 THEN -n ELSE n

(***************************************************************************)
(* C1: after any call of update(p) returns, also the first one on a fresh  *)
(* World, the key set of the store is exactly the window centred on        *)
(* floor(p / chunkSize).                                                   *)
(***************************************************************************)
C1_WindowAfterEveryUpdate ==
  lastCall.op = "update" =>
    KeySet = ActiveWindow(ObserverChunk, config.viewDistance)

(***************************************************************************)
(* C2: when forceUpdate(p) returns, the key set is the full window centred *)
(* on floor(p / chunkSize), that chunk is the recorded observer chunk, and *)
(* an update(p) that follows immediately does no work.                     *)
(***************************************************************************)
C2_ForceUpdateRecomputes ==
  lastCall.op = "forceUpdate" =>
    /\ KeySet = ActiveWindow(ObserverChunk, config.viewDistance)
    /\ Len(chunks) = (2 * config.viewDistance + 1) * (2 * config.viewDistance + 1)
    /\ lastPlayerChunk = Fin(ObserverChunk)
    /\ \A tex \in 1..TextureVariants :
         LET w == update(World, lastCall.pos, tex)
         IN /\ w.log = << >>
            /\ w.chunks = chunks
            /\ w.scene = scene
            /\ w.heap = heap
            /\ w.lastPlayerChunk = lastPlayerChunk

\* forceUpdate was called for the chunk already recorded, with its window
\* resident: the call loaded and unloaded nothing.
C2_Witness ==
  /\ lastCall.op = "forceUpdate"
  /\ recomputes >= 2
  /\ log = << >>
  /\ chunks # << >>

(***************************************************************************)
(* C3: an update(p) with floor(p / chunkSize) equal to the recorded        *)
(* observer chunk calls neither loadChunk nor unloadChunk and leaves the   *)
(* store, the scene and the recorded chunk as they were.                   *)
(***************************************************************************)
C3_NoWorkWithinChunk ==
  [][ (/\ lastCall'.op = "update"
       /\ Fin(worldToChunk(lastCall'.pos, config)) = lastPlayerChunk)
      => (/\ log' = << >>
          /\ chunks' = chunks
          /\ scene' = scene
          /\ heap' = heap
          /\ lastPlayerChunk' = lastPlayerChunk) ]_vars

\* update was called at the far corner of chunk (0,0) with the window of
\* that chunk resident.
C3_Witness ==
  /\ lastCall.op = "update"
  /\ lastCall.pos = [x |-> 319, y |-> 16, z |-> 319]
  /\ lastPlayerChunk = Fin([x |-> 0, z |-> 0])
  /\ log = << >>
  /\ chunks # << >>

(***************************************************************************)
(* C4: a chunk resident for a coordinate that is still in the window is    *)
(* not generated again: loadChunk is called only for keys absent from the  *)
(* store, once each, and the chunk stored for a key that stays in the      *)
(* window is the same object before and after the call.                    *)
(***************************************************************************)
C4_NoDuplicateWork ==
  [][ /\ \A j \in Logged(log', "load") :
           /\ log'[j][2] \notin KeySet
           /\ \A k \in Logged(log', "load") : log'[k][2] = log'[j][2] => k = j
      /\ \A i \in 1..Len(chunks) :
           (/\ ~lastPlayerChunk'.x.inf
            /\ ~lastPlayerChunk'.z.inf
            /\ chunks[i].key \in
                 ActiveWindow([x |-> lastPlayerChunk'.x.v, z |-> lastPlayerChunk'.z.v],
                              config.viewDistance))
           => \E k \in 1..Len(chunks') :
                /\ chunks'[k].key = chunks[i].key
                /\ chunks'[k].chunk = chunks[i].chunk ]_vars

\* A recompute loaded a chunk while an older one stayed in the store.
C4_Witness ==
  \E j \in Logged(log, "load") :
    \E i \in 1..Len(chunks) : chunks[i].chunk < log[j][3]

(***************************************************************************)
(* C5: between calls every resident coordinate is within Chebyshev         *)
(* distance viewDistance of the recorded observer chunk, so at most        *)
(* (2 * viewDistance + 1)^2 chunks are resident.                           *)
(***************************************************************************)
C5_BoundedResidency ==
  /\ ~lastPlayerChunk.x.inf
  /\ ~lastPlayerChunk.z.inf
  /\ \A i \in 1..Len(chunks) :
       /\ Abs(chunks[i].key[1] - lastPlayerChunk.x.v) <= config.viewDistance
       /\ Abs(chunks[i].key[2] - lastPlayerChunk.z.v) <= config.viewDistance
       /\ \A k \in 1..Len(chunks) : chunks[k].key = chunks[i].key => k = i
  /\ Len(chunks) <= (2 * config.viewDistance + 1) * (2 * config.viewDistance + 1)

\* The observer jumped several chunks and a whole window was swapped.
C5_Witness ==
  /\ lastCall.pos = [x |-> 1000, y |-> 16, z |-> 400]
  /\ Logged(log, "unload") # {}
  /\ Cardinality(Logged(log, "load")) =
       (2 * config.viewDistance + 1) * (2 * config.viewDistance + 1)

(***************************************************************************)
(* C6: with viewDistance 0 every update leaves exactly the observer's      *)
(* chunk resident (the first update at the origin leaves (0,0)), and an    *)
(* update that crosses a chunk boundary unloads the previous chunk exactly *)
(* once.                                                                   *)
(***************************************************************************)
C6_SingleChunkWindow ==
  [][ (config.viewDistance = 0 /\ lastCall'.op = "update")
      => LET cur == worldToChunk(lastCall'.pos, config)
         IN /\ { chunks'[i].key : i \in 1..Len(chunks') } = { chunkKey(cur) }
            /\ (/\ ~lastPlayerChunk.x.inf
                /\ ~lastPlayerChunk.z.inf
                /\ Fin(cur) # lastPlayerChunk)
               => Cardinality({ j \in Logged(log', "unload") :
                                  log'[j][2] = << lastPlayerChunk.x.v,
                                                  lastPlayerChunk.z.v >> }) = 1 ]_vars

(***************************************************************************)
(* C7: unloading a coordinate that is not resident leaves the store as it  *)
(* is, and no chunk is unloaded more than once for one load.               *)
(***************************************************************************)
C7_UnloadIdempotent ==
  /\ \A id \in 1..Len(heap) :
       /\ heap[id].unloads <= 1
       /\ id \in Resident => heap[id].unloads = 0
  /\ \A key \in { chunkKey(c) : c \in DOMAIN layout } \ KeySet :
       \A id \in (1..Len(heap)) \ Resident :
         LET w == unloadChunk(World, key, id)
         IN /\ Compact(w.chunks) = chunks
            /\ w.scene = scene
            /\ w.heap[id].geometries = heap[id].geometries

\* A coordinate was loaded, unloaded, loaded again and unloaded again.
C7_Witness ==
  \E a, b \in 1..Len(heap) :
    /\ a # b
    /\ heap[a].coord = heap[b].coord
    /\ heap[a].unloads = 1
    /\ heap[b].unloads = 1
    /\ chunkKey(heap[a].coord) \notin KeySet

(***************************************************************************)
(* C8: every resource a chunk owns by itself, its geometries and the       *)
(* materials of its light fixtures, has been released once the chunk has   *)
(* left the store.                                                         *)
(***************************************************************************)
C8_OwnedResourcesReleased ==
  \A id \in (1..Len(heap)) \ Resident :
    /\ heap[id].geometries = {}
    /\ heap[id].materials = {}

(***************************************************************************)
(* C9: the chunk groups attached to the scene are exactly those of the     *)
(* resident chunks, each attached once; a loaded chunk's group is in the   *)
(* scene and an unloaded chunk's group is not.                             *)
(***************************************************************************)
C9_SceneInStep ==
  /\ { scene[i] : i \in 1..Len(scene) } = Resident
  /\ \A i, k \in 1..Len(scene) : scene[i] = scene[k] => i = k
  /\ Len(scene) = Len(chunks)
  /\ \A j \in Logged(log, "unload") :
       \A i \in 1..Len(scene) : scene[i] # log[j][3]
  /\ \A j \in Logged(log, "load") :
       Cardinality({ i \in 1..Len(scene) : scene[i] = log[j][3] }) = 1

\* A recompute both attached and detached groups.
C9_Witness ==
  /\ Logged(log, "unload") # {}
  /\ Logged(log, "load") # {}
  /\ Len(scene) > 0

(***************************************************************************)
(* C10: generation is deterministic: whatever was generated before, in     *)
(* this page or another, and whatever the static materials hold, a         *)
(* coordinate and config are always generated as the same sequence of      *)
(* elements with the same fields.                                          *)
(***************************************************************************)
C10_Deterministic ==
  \A k \in GenKeys : Cardinality(results[k]) <= 1

\* Three chunks were constructed for two coordinates: one of the two was
\* generated twice, with another generation before, between or after.
C10_Witness ==
  /\ made = 3
  /\ gen.pc = "idle"
  /\ Cardinality({ k \in GenKeys : results[k] # {} }) = 2

(***************************************************************************)
(* C11: hashCoords returns an integer in 0 .. 2^31 - 1 for every integer   *)
(* x, z and seed, negative ones and ones whose fold leaves the 32-bit      *)
(* range included.                                                         *)
(***************************************************************************)
C11_HashInRange ==
  hash.pc = "done" => hash.result \in 0..Mask31

\* A call with a negative x has returned, and a conversion to 32 bits on its
\* way lost high bits.
C11_Witness ==
  /\ hash.pc = "done"
  /\ hash.wrapped
  /\ hash.x.hi < 0

(***************************************************************************)
(* C12: every value a closure of seededRandom returns is at least 0 and    *)
(* below 1, whatever 31-bit seed it was made with and however often it is  *)
(* called.                                                                 *)
(***************************************************************************)
C12_UnitInterval ==
  \A i \in 1..Len(random) :
    random[i].calls > 0 =>
      /\ random[i].value.num >= 0
      /\ random[i].value.num < random[i].value.den

\* A closure made with 2^31 - 1 has been called more than once.
C12_Witness ==
  \E i \in 1..Len(random) :
    /\ random[i].seed = Mask31
    /\ random[i].calls >= 2

(***************************************************************************)
(* C13: each call takes the state s of a closure to                        *)
(* (s * 1103515245 + 12345) mod 2^31, for every 31-bit s, and two closures *)
(* made with the same seed are in the same state after the same number of  *)
(* calls.                                                                  *)
(***************************************************************************)
C13_ExactRecurrence ==
  /\ \A i \in 1..Len(random) :
       random[i].calls > 0 =>
         random[i].state = seededRandomNext_exactInteger(random[i].prev)
  /\ \A i, j \in 1..Len(random) :
       (random[i].seed = random[j].seed /\ random[i].calls = random[j].calls)
         => random[i].state = random[j].state

(***************************************************************************)
(* C14 as stated: the threshold of each cell is 0.1 - min(d * 0.02, 0.15)  *)
(* with d the distance of the cell's own world position from the origin    *)
(* (its corner, where the noise is sampled, or its centre), clamped from   *)
(* d = 7.5 on.  In ten-thousandths: 1000 - min(200 d, 1500).               *)
(***************************************************************************)
C14_CellDistanceThreshold ==
  gen.pc # "idle" =>
    \A i \in 1..Len(gen.thresholds) :
      LET cellSize == gen.cfg.chunkSize \div gridSize
          cornerX == gen.coord.x * gen.cfg.chunkSize + gen.thresholds[i].gx * cellSize
          cornerZ == gen.coord.z * gen.cfg.chunkSize + gen.thresholds[i].gz * cellSize
          \* four times the squared distance, of the corner and of the centre
          corner4 == 4 * (cornerX * cornerX + cornerZ * cornerZ)
          centre4 == (2 * cornerX + cellSize) * (2 * cornerX + cellSize)
                     + (2 * cornerZ + cellSize) * (2 * cornerZ + cellSize)
          claimed(dd4) ==
            [minuend |-> 1000,
             reductionSq |-> IF dd4 >= 225 THEN 1500 * 1500 ELSE 10000 * dd4]
      IN \/ gen.thresholds[i].value = claimed(corner4)
         \/ gen.thresholds[i].value = claimed(centre4)

(***************************************************************************)
(* C14 amended: the threshold of each cell is 0.1 - min(depth * 0.02,      *)
(* 0.15) with depth one hundredth of the distance of the chunk's corner    *)
(* (coord * chunkSize) from the origin, so all cells of a chunk have the   *)
(* same threshold and the clamp is reached at a distance of 750.  In       *)
(* ten-thousandths: 1000 - min(2 D, 1500).                                 *)
(***************************************************************************)
C14_ChunkCornerThreshold ==
  gen.pc # "idle" =>
    LET worldX == gen.coord.x * gen.cfg.chunkSize
        worldZ == gen.coord.z * gen.cfg.chunkSize
        distSq == worldX * worldX + worldZ * worldZ
    IN \A i \in 1..Len(gen.thresholds) :
         /\ gen.thresholds[i].value.minuend = 1000
         /\ gen.thresholds[i].value.reductionSq =
              (IF distSq >= 750 * 750 THEN 1500 * 1500 ELSE 4 * distSq)
         /\ gen.thresholds[i].value = gen.thresholds[1].value

\* The sweep of chunk (-1,2), whose corner is neither at the origin nor
\* beyond the clamp, has passed several cells.
C14_Witness ==
  /\ gen.pc = "cells"
  /\ gen.coord = [x |-> -1, z |-> 2]
  /\ Len(gen.thresholds) >= 5

(***************************************************************************)
(* C15: of two chunks the one farther from the origin is swept with a      *)
(* threshold no higher than the nearer one, and every threshold is at most *)
(* 0.1 and at least -0.05.                                                 *)
(***************************************************************************)
C15_MonotoneClamped ==
  \A k1 \in GenKeys, k2 \in GenKeys :
    \A t1 \in thresholdLog[k1], t2 \in thresholdLog[k2] :
      /\ t1.minuend = 1000
      /\ t1.reductionSq >= 0
      /\ t1.reductionSq <= 1500 * 1500
      /\ (k1[1].x * k1[1].x + k1[1].z * k1[1].z
            <= k2[1].x * k2[1].x + k2[1].z * k2[1].z)
         => (t2.minuend = t1.minuend /\ t2.reductionSq >= t1.reductionSq)

\* The chunk at the origin, one a little away and one beyond the clamp have
\* all been generated.
C15_Witness ==
  /\ thresholdLog[<< [x |-> 0, z |-> 0], GenConfigOf(config) >>] # {}
  /\ thresholdLog[<< [x |-> -1, z |-> 2], GenConfigOf(config) >>] # {}
  /\ \E cfg \in GenConfigs : thresholdLog[<< [x |-> 24, z |-> 0], cfg >>] # {}

(***************************************************************************)
(* C16: the connection handler stores {id, position (0, 1.6, 0),           *)
(* rotation 0} for the new socket, then sends the roster, the new player   *)
(* in it, as `players` to the new socket only, then broadcasts             *)
(* `player_joined` with the new state to every other socket and not to the *)
(* new one.                                                                *)
(***************************************************************************)
C16_ConnectionHandshake ==
  lastEvent.op = "connection" =>
    LET id == lastEvent.id
        state == [id |-> id, position |-> [x |-> 0, y |-> 16, z |-> 0], rotation |-> 0]
    IN /\ PlayersHas(players, id)
       /\ PlayersGet(players, id) = state
       /\ Len(sent) = 2
       /\ sent[1].event = "players"
       /\ sent[1].to = {id}
       /\ sent[1].data = PlayersValues(players)
       /\ \E i \in 1..Len(sent[1].data) : sent[1].data[i] = state
       /\ id \in sent[1].held
       /\ sent[2].event = "player_joined"
       /\ sent[2].data = state
       /\ sent[2].to = sockets \ {id}
       /\ id \notin sent[2].to

\* A socket connected while two others were connected, one of which had
\* moved.
C16_Witness ==
  /\ lastEvent.op = "connection"
  /\ Cardinality(sockets) = 3
  /\ \E i \in 1..Len(players) : players[i].value.rotation # 0

(***************************************************************************)
(* C17: every `move` of a connected client sets the position and rotation  *)
(* stored for its socket to the payload's, whether or not `player_moved`   *)
(* is broadcast, and leaves what is stored for the other sockets as it is. *)
(***************************************************************************)
C17_MoveAlwaysStored ==
  [][ (lastEvent'.n # lastEvent.n /\ lastEvent'.op = "move")
      => /\ PlayersHas(players', lastEvent'.id)
         /\ PlayersGet(players', lastEvent'.id).position = lastEvent'.data.position
         /\ PlayersGet(players', lastEvent'.id).rotation = lastEvent'.data.rotation
         /\ PlayersGet(players', lastEvent'.id).id = lastEvent'.id
         /\ Len(players') = Len(players)
         /\ \A i \in 1..Len(players) :
              players[i].key # lastEvent'.id => players'[i] = players[i] ]_vars

\* A move was stored without a broadcast, while another socket that had
\* moved before was connected.
C17_Witness ==
  /\ lastEvent.op = "move"
  /\ sent = << >>
  /\ PlayersGet(players, lastEvent.id).position = lastEvent.data.position
  /\ \E i \in 1..Len(players) :
       /\ players[i].key # lastEvent.id
       /\ players[i].value.position # PlayersGet(players, lastEvent.id).position
       /\ players[i].value.rotation # 0

(***************************************************************************)
(* C18: any two consecutive `player_moved` broadcasts, of whichever        *)
(* movers, are more than 50 ms apart, and a `move` that arrives within     *)
(* 50 ms of the last broadcast is not broadcast and leaves the throttle    *)
(* timestamp as it is.                                                     *)
(***************************************************************************)
C18_GlobalThrottle ==
  [][ /\ \A i \in 1..(Len(movedAt') - 1) : movedAt'[i + 1] - movedAt'[i] > 50
      /\ (/\ lastEvent'.n # lastEvent.n
          /\ lastEvent'.op = "move"
          /\ movedAt # << >>
          /\ clock' - movedAt[Len(movedAt)] <= 50)
         => /\ sent' = << >>
            /\ movedAt' = movedAt
            /\ lastBroadcast' = lastBroadcast ]_vars

\* With two sockets connected, a move that arrived exactly 50 ms after the
\* last broadcast was not broadcast.
C18_Witness ==
  /\ lastEvent.op = "move"
  /\ sent = << >>
  /\ Len(movedAt) >= 1
  /\ clock - movedAt[Len(movedAt)] = 50
  /\ Cardinality(sockets) >= 2

(***************************************************************************)
(* C19: a tick of the 5000 ms interval sends the full roster as `players`  *)
(* to all sockets if at least one is connected, and nothing if none is.    *)
(***************************************************************************)
C19_RosterTick ==
  lastEvent.op = "roster" =>
    IF sockets # {}
    THEN /\ Len(sent) = 1
         /\ sent[1].event = "players"
         /\ sent[1].to = sockets
         /\ sent[1].data = PlayersValues(players)
         /\ { sent[1].data[i].id : i \in 1..Len(sent[1].data) } = sockets
    ELSE sent = << >>

\* The interval fired with two sockets connected.
C19_Witness ==
  /\ lastEvent.op = "roster"
  /\ Cardinality(sockets) = 2
  /\ sent # << >>

(***************************************************************************)
(* C20: the disconnect handler removes the socket's state and then         *)
(* broadcasts `player_left` with its id to the sockets that remain, and no *)
(* roster sent afterwards has the id in it.                                *)
(***************************************************************************)
C20_DisconnectRemoves ==
  /\ lastEvent.op = "disconnect" =>
       /\ ~PlayersHas(players, lastEvent.id)
       /\ lastEvent.id \notin sockets
       /\ Len(sent) = 1
       /\ sent[1].event = "player_left"
       /\ sent[1].data = lastEvent.id
       /\ sent[1].to = sockets
       /\ lastEvent.id \notin sent[1].held
  /\ \A j \in 1..Len(sent) :
       sent[j].event = "players" =>
         \A i \in 1..Len(sent[j].data) : sent[j].data[i].id \notin gone

\* A roster went out to a socket that remained after another had
\* disconnected.
C20_Witness ==
  /\ gone # {}
  /\ sockets # {}
  /\ \E j \in 1..Len(sent) : sent[j].event = "players"

(***************************************************************************)
(* C21: in a frame of a client whose relay is unreachable, not yet         *)
(* connected or disconnected (the last event of its socket, if any, is not *)
(* 'connect'), sendPosition emits nothing, and world.update runs and       *)
(* leaves the store equal to the window of the player's chunk.             *)
(***************************************************************************)
C21_StreamingWithoutRelay ==
  [][ (frames' # frames /\ link # "connect")
      => /\ moves' = << >>
         /\ lastCall'.op = "update"
         /\ KeySet' = ActiveWindow(ObserverChunk', config.viewDistance) ]_vars

\* After a connection that was lost again, a frame took the player into
\* another chunk: the window was recomputed and nothing was emitted.
C21_Witness ==
  /\ frames >= 1
  /\ link = "disconnect"
  /\ localPlayerId # 0
  /\ lastCall.op = "update"
  /\ Logged(log, "load") # {}
  /\ Logged(log, "unload") # {}
  /\ moves = << >>

\* The shape of a player state: lines 41-45 of server/index.js.
IsPlayerState(v) == DOMAIN v = {"id", "position", "rotation"}

(***************************************************************************)
(* C22: every event the server emits is one of players, player_joined,     *)
(* player_moved and player_left, carrying player states (id, position,     *)
(* rotation) or a socket's id, and what the server holds is one such       *)
(* player state per connected socket, besides the throttle timestamp.      *)
(***************************************************************************)
C22_RelayCarriesPlayersOnly ==
  /\ \A i \in 1..Len(sent) :
       /\ sent[i].event \in {"players", "player_joined", "player_moved", "player_left"}
       /\ sent[i].event = "players"
            => \A k \in 1..Len(sent[i].data) : IsPlayerState(sent[i].data[k])
       /\ sent[i].event \in {"player_joined", "player_moved"}
            => IsPlayerState(sent[i].data)
       /\ sent[i].event = "player_left" => sent[i].data \in 1..issued
  /\ \A i \in 1..Len(players) :
       /\ players[i].key \in sockets
       /\ IsPlayerState(players[i].value)
       /\ players[i].value.id = players[i].key
  /\ lastBroadcast \in Nat

\* A move whose payload carries more than a position and a rotation has
\* been stored and broadcast.
C22_Witness ==
  /\ lastEvent.op = "move"
  /\ "chunk" \in DOMAIN lastEvent.data
  /\ \E i \in 1..Len(sent) : sent[i].event = "player_moved"
  /\ Len(players) >= 2

(***************************************************************************)
(* C23: a recompute that starts from the store R and computes the window W *)
(* loads exactly the coordinates of W \ R and unloads exactly those of     *)
(* R \ W, each once and none both; a step of one chunk along one axis from *)
(* a store that is the window of the chunk left loads 2 * viewDistance + 1 *)
(* chunks and unloads as many.                                             *)
(***************************************************************************)
C23_ExactDifference ==
  [][ recomputes' # recomputes =>
        LET R == KeySet
            W == ActiveWindow(ObserverChunk', config.viewDistance)
            loads == Logged(log', "load")
            unloads == Logged(log', "unload")
            from == ObserverChunk
            to == ObserverChunk'
        IN /\ {log'[j][2] : j \in loads} = W \ R
           /\ {log'[j][2] : j \in unloads} = R \ W
           /\ Cardinality(loads) = Cardinality(W \ R)
           /\ Cardinality(unloads) = Cardinality(R \ W)
           /\ {log'[j][2] : j \in loads} \cap {log'[j][2] : j \in unloads} = {}
           /\ ( /\ R = ActiveWindow(from, config.viewDistance)
                /\ Abs(to.x - from.x) + Abs(to.z - from.z) = 1 )
              => /\ Cardinality(loads) = 2 * config.viewDistance + 1
                 /\ Cardinality(unloads) = 2 * config.viewDistance + 1 ]_vars

\* A step of one chunk along x from a settled store has been recomputed.
C23_Witness ==
  /\ log # << >>
  /\ Cardinality(Logged(log, "load")) = 2 * config.viewDistance + 1
  /\ Cardinality(Logged(log, "unload")) = 2 * config.viewDistance + 1
  /\ config.viewDistance >= 1
  /\ KeySet = ActiveWindow(ObserverChunk, config.viewDistance)
  /\ \E side \in {-1, 1} :
       {log[j][2] : j \in Logged(log, "unload")}
         = {ObserverChunk.x + side * (config.viewDistance + 1)}
             \X (ObserverChunk.z - config.viewDistance .. ObserverChunk.z + config.viewDistance)

(***************************************************************************)
(* C24: the chunk coordinate a call computes for the position p is the k   *)
(* with k * chunkSize <= p.x < (k + 1) * chunkSize, also below zero, and   *)
(* likewise for z; p.y plays no part.                                      *)
(***************************************************************************)
C24_FloorPerAxis ==
  lastCall.op # "new" =>
    LET size == PosUnit * config.chunkSize
    IN /\ ~lastPlayerChunk.x.inf /\ ~lastPlayerChunk.z.inf
       /\ lastPlayerChunk.x.v * size <= lastCall.pos.x
       /\ lastCall.pos.x < (lastPlayerChunk.x.v + 1) * size
       /\ lastPlayerChunk.z.v * size <= lastCall.pos.z
       /\ lastCall.pos.z < (lastPlayerChunk.z.v + 1) * size

\* The call for x = z = -0.1, which unloaded a chunk of another window.
C24_Witness ==
  /\ lastCall.op = "update"
  /\ lastCall.pos = [x |-> -1, y |-> 16, z |-> -1]
  /\ lastPlayerChunk = Fin([x |-> -1, z |-> -1])
  /\ \E j \in Logged(log, "unload") : log[j][2] = << 2, 0 >>

(***************************************************************************)
(* C25: the elements of every chunk, finished or under way, start with one *)
(* floor and then one ceiling, the only ones; each of the 16 cells of the  *)
(* 4 x 4 grid has at most one wall and at most one pillar; every wall is   *)
(* cellSize * (0.5 + r * 0.5) long with 0 <= r <= 1, so between half a     *)
(* cell and a whole one, and turned by 0 or 90 degrees.                    *)
(***************************************************************************)
C25_ChunkShape ==
  LET Shaped(els, cfg) ==
        /\ Len(els) >= 2
        /\ els[1].kind = "floor"
        /\ els[2].kind = "ceiling"
        /\ \A i \in 3..Len(els) : els[i].kind \notin {"floor", "ceiling"}
        /\ \A i \in 1..Len(els) :
             els[i].kind \in {"wall", "pillar"}
               => (els[i].gx \in 0..3 /\ els[i].gz \in 0..3)
        /\ \A i \in 1..Len(els), j \in 1..Len(els) :
             ( /\ els[i].kind \in {"wall", "pillar"}
               /\ els[j].kind = els[i].kind
               /\ els[j].gx = els[i].gx
               /\ els[j].gz = els[i].gz ) => i = j
        /\ \A i \in 1..Len(els) :
             els[i].kind = "wall"
               => /\ 4 * els[i].length.cellSize = cfg.chunkSize
                  /\ els[i].length.halves = 1
                  /\ els[i].length.share = 1
                  /\ els[i].length.random.den > 0
                  /\ els[i].length.random.num >= 0
                  /\ els[i].length.random.num <= els[i].length.random.den
                  /\ els[i].rotation \in {0, 90}
  IN /\ gen.pc # "idle" => Shaped(gen.elements, gen.cfg)
     /\ \A k \in GenKeys : \A els \in results[k] : Shaped(els, k[2])

\* A chunk has been generated with a wall along each axis and a pillar.
C25_Witness ==
  /\ gen.pc = "done"
  /\ \E i \in 1..Len(gen.elements) :
       gen.elements[i].kind = "wall" /\ gen.elements[i].rotation = 90
  /\ \E i \in 1..Len(gen.elements) :
       gen.elements[i].kind = "wall" /\ gen.elements[i].rotation = 0
  /\ \E i \in 1..Len(gen.elements) : gen.elements[i].kind = "pillar"

(***************************************************************************)
(* C26: the fixtures of a chunk lie on the lattice {4, 12, 20, ...} below  *)
(* chunkSize in x and z (16 points for chunkSize 32), at most one per      *)
(* point; each point the sweep has visited took one draw that skips it     *)
(* when it exceeds 0.85, and, only if it was not skipped, the next draw,   *)
(* which makes the fixture dim when it exceeds 0.9; the fixtures are never *)
(* more than the lattice points.                                           *)
(***************************************************************************)
C26_LightLattice ==
  gen.pc # "idle" =>
    LET els == gen.elements
        ds == gen.draws
        Lattice == {n \in 0..(gen.cfg.chunkSize - 1) : n % 8 = 4}
        \* num / 0x7fffffff > a / b
        Over(num, a, b) == num > a * (Mask31 \div b) + (a * (Mask31 % b)) \div b
        fixtures == {i \in 1..Len(els) : els[i].kind = "fixture"}
        skips == {j \in 1..Len(ds) : ds[j][1] = "lightSkip"}
        intensities == {j \in 1..Len(ds) : ds[j][1] = "lightIntensity"}
    IN /\ gen.cfg.chunkSize = 32 => Cardinality(Lattice \X Lattice) = 16
       /\ \A i \in fixtures : els[i].x \in Lattice /\ els[i].z \in Lattice
       /\ \A i \in fixtures, k \in fixtures :
            (els[i].x = els[k].x /\ els[i].z = els[k].z) => i = k
       /\ Cardinality(fixtures) <= Cardinality(Lattice \X Lattice)
       /\ \A j \in skips, k \in skips :
            (ds[j][2] = ds[k][2] /\ ds[j][3] = ds[k][3]) => j = k
       /\ gen.pc = "done" =>
            {<< ds[j][2], ds[j][3] >> : j \in skips} = Lattice \X Lattice
       /\ \A j \in skips :
            LET here == {i \in fixtures : els[i].x = ds[j][2] /\ els[i].z = ds[j][3]}
                next == j + 1 \in intensities
            IN /\ ds[j][2] \in Lattice /\ ds[j][3] \in Lattice
               /\ (here = {}) <=> Over(ds[j][4], 17, 20)
               /\ next <=> here # {}
               /\ next => /\ ds[j + 1][2] = ds[j][2] /\ ds[j + 1][3] = ds[j][3]
                          /\ \A i \in here : els[i].dim <=> Over(ds[j + 1][4], 9, 10)
       /\ \A j \in intensities : j - 1 \in skips

\* A finished chunk with a skipped point, a dim fixture and a normal one.
C26_Witness ==
  /\ gen.pc = "done"
  /\ \E i \in 1..Len(gen.elements) :
       gen.elements[i].kind = "fixture" /\ gen.elements[i].dim
  /\ \E i \in 1..Len(gen.elements) :
       gen.elements[i].kind = "fixture" /\ ~gen.elements[i].dim
  /\ Cardinality({i \in 1..Len(gen.elements) : gen.elements[i].kind = "fixture"}) < 16

(***************************************************************************)
(* C27: the draws of one generation come in a fixed order: the cells one   *)
(* after the other, gx outside and gz inside; in a cell the wall-length    *)
(* and the wall-rotation draw, made exactly when the cell has a wall, then *)
(* the pillar test, then the two pillar-position draws, made exactly when  *)
(* the cell has a pillar; every draw of a cell precedes every draw of the  *)
(* light sweep.                                                            *)
(***************************************************************************)
C27_DrawOrder ==
  gen.pc # "idle" =>
    LET ds == gen.draws
        els == gen.elements
        Rank(name) == CASE name = "wallLength" -> 1
                        [] name = "wallRotation" -> 2
                        [] name = "pillarTest" -> 3
                        [] name = "pillarX" -> 4
                        [] name = "pillarZ" -> 5
                        [] OTHER -> 0
        OfCell(j) == Rank(ds[j][1]) > 0
        Place(j) == 4 * ds[j][2] + ds[j][3]
        Drawn(name, gx, gz) ==
          \E j \in 1..Len(ds) : ds[j][1] = name /\ ds[j][2] = gx /\ ds[j][3] = gz
        Has_(kind, gx, gz) ==
          \E i \in 1..Len(els) : els[i].kind = kind /\ els[i].gx = gx /\ els[i].gz = gz
    IN /\ \A j \in 1..Len(ds) :
            \/ OfCell(j)
            \/ ds[j][1] \in {"lightSkip", "lightIntensity"}
       /\ \A i \in 1..Len(ds), j \in 1..Len(ds) :
            i < j =>
              /\ OfCell(j) => OfCell(i)
              /\ (OfCell(i) /\ OfCell(j)) =>
                   \/ Place(i) < Place(j)
                   \/ Place(i) = Place(j) /\ Rank(ds[i][1]) < Rank(ds[j][1])
       /\ \A gx \in 0..3, gz \in 0..3 :
            /\ Drawn("wallLength", gx, gz) <=> Has_("wall", gx, gz)
            /\ Drawn("wallRotation", gx, gz) <=> Has_("wall", gx, gz)
            /\ Drawn("pillarX", gx, gz) <=> Has_("pillar", gx, gz)
            /\ Drawn("pillarZ", gx, gz) <=> Has_("pillar", gx, gz)
            /\ (Has_("wall", gx, gz) \/ Has_("pillar", gx, gz))
                 => Drawn("pillarTest", gx, gz)
            /\ gen.pc # "cells" => Drawn("pillarTest", gx, gz)

\* A finished chunk one of whose cells has a wall and another a pillar, so
\* that draws of all five kinds were made before the light sweep.
C27_Witness ==
  /\ gen.pc = "done"
  /\ \E j \in 1..Len(gen.draws) : gen.draws[j][1] = "wallRotation"
  /\ \E j \in 1..Len(gen.draws) : gen.draws[j][1] = "pillarZ"
  /\ \E j \in 1..Len(gen.draws) : gen.draws[j][1] = "lightIntensity"

(***************************************************************************)
(* C28 as stated: the layout signal of the cell (gx, gz) is sampled at the *)
(* centre of the cell, (worldX + (gx + 1/2) * cellSize,                    *)
(* worldZ + (gz + 1/2) * cellSize), where the wall of the cell is centred. *)
(* Twice the coordinates are compared.                                     *)
(***************************************************************************)
C28_SampledAtCentre ==
  gen.pc # "idle" =>
    LET cellSize == gen.cfg.chunkSize \div 4
        worldX == gen.coord.x * gen.cfg.chunkSize
        worldZ == gen.coord.z * gen.cfg.chunkSize
    IN /\ \A i \in 1..Len(gen.samples) :
            /\ 2 * gen.samples[i].x = 2 * worldX + (2 * gen.samples[i].gx + 1) * cellSize
            /\ 2 * gen.samples[i].z = 2 * worldZ + (2 * gen.samples[i].gz + 1) * cellSize
       /\ \A i \in 1..Len(gen.elements) :
            gen.elements[i].kind = "wall"
              => \E k \in 1..Len(gen.samples) :
                   /\ gen.samples[k].gx = gen.elements[i].gx
                   /\ gen.samples[k].gz = gen.elements[i].gz
                   /\ 2 * (gen.samples[k].x - worldX)
                        = (2 * gen.elements[i].x.cell + gen.elements[i].x.halves) * cellSize
                   /\ 2 * (gen.samples[k].z - worldZ)
                        = (2 * gen.elements[i].z.cell + gen.elements[i].z.halves) * cellSize

(***************************************************************************)
(* C28 amended: the layout signal of the cell (gx, gz) is sampled at the   *)
(* corner of the cell, (worldX + gx * cellSize, worldZ + gz * cellSize),   *)
(* and the wall of the cell is centred half a cell from there on both      *)
(* axes, at the centre of the cell.                                        *)
(***************************************************************************)
C28_SampledAtCorner ==
  gen.pc # "idle" =>
    LET cellSize == gen.cfg.chunkSize \div 4
        worldX == gen.coord.x * gen.cfg.chunkSize
        worldZ == gen.coord.z * gen.cfg.chunkSize
    IN /\ \A i \in 1..Len(gen.samples) :
            /\ gen.samples[i].x = worldX + gen.samples[i].gx * cellSize
            /\ gen.samples[i].z = worldZ + gen.samples[i].gz * cellSize
       /\ \A i \in 1..Len(gen.elements) :
            gen.elements[i].kind = "wall"
              => \E k \in 1..Len(gen.samples) :
                   /\ gen.samples[k].gx = gen.elements[i].gx
                   /\ gen.samples[k].gz = gen.elements[i].gz
                   /\ 2 * (gen.samples[k].x - worldX) + cellSize
                        = (2 * gen.elements[i].x.cell + gen.elements[i].x.halves) * cellSize
                   /\ 2 * (gen.samples[k].z - worldZ) + cellSize
                        = (2 * gen.elements[i].z.cell + gen.elements[i].z.halves) * cellSize

\* The sweep of chunk (-1,2) has sampled several cells and placed a wall.
C28_Witness ==
  /\ gen.pc # "idle"
  /\ gen.coord = [x |-> -1, z |-> 2]
  /\ Len(gen.samples) >= 6
  /\ \E i \in 1..Len(gen.elements) :
       gen.elements[i].kind = "wall" /\ gen.elements[i].gx > 0

(***************************************************************************)
(* C29: every call of update or forceUpdate returns, the iteration of the  *)
(* store over, after at most (2 * viewDistance + 1)^2 loads and at most    *)
(* one unload of each chunk that was resident when the call began, and of  *)
(* no other; a recompute leaves no chunk of the old store outside the new  *)
(* window resident: the iteration that deletes skips none.                 *)
(***************************************************************************)
C29_CallsTerminate ==
  [][ LET side == 2 * config.viewDistance + 1
          loads == Logged(log', "load")
          unloads == Logged(log', "unload")
          W == ActiveWindow(ObserverChunk', config.viewDistance)
      IN /\ lastCall'.op \in {"update", "forceUpdate"}
         /\ \A i \in 1..Len(chunks') : ~chunks'[i].empty
         /\ Cardinality(loads) <= side * side
         /\ Cardinality(unloads) <= Len(chunks)
         /\ \A j \in unloads :
              /\ log'[j][3] \in Resident
              /\ \A k \in unloads : log'[k][3] = log'[j][3] => k = j
         /\ recomputes' # recomputes =>
              \A i \in 1..Len(chunks) :
                chunks[i].key \notin W
                  => /\ chunks[i].chunk \notin Resident'
                     /\ chunks[i].key \notin KeySet'
                     /\ \E j \in unloads : log'[j][3] = chunks[i].chunk ]_vars

\* A call has unloaded several chunks that followed each other in the
\* store.
C29_Witness ==
  /\ lastCall.op \in {"update", "forceUpdate"}
  /\ Cardinality(Logged(log, "unload")) >= 3
  /\ \E j \in Logged(log, "unload") :
       j + 1 \in Logged(log, "unload") /\ log[j + 1][3] = log[j][3] + 1

(***************************************************************************)
(* C30: in one recompute every load precedes every unload, and the number  *)
(* of resident chunks, counted after each load and each unload, never      *)
(* exceeds 2 * (2 * viewDistance + 1)^2.                                   *)
(***************************************************************************)
C30_LoadsBeforeUnloads ==
  [][ recomputes' # recomputes =>
        LET side == 2 * config.viewDistance + 1
            loads == Logged(log', "load")
            unloads == Logged(log', "unload")
            ResidentAfter(k) == Len(chunks) + Cardinality({j \in loads : j <= k})
                                  - Cardinality({j \in unloads : j <= k})
        IN /\ \A i \in loads, j \in unloads : i < j
           /\ \A k \in 0..Len(log') : ResidentAfter(k) <= 2 * side * side
           /\ ResidentAfter(Len(log')) = Len(chunks') ]_vars

\* A recompute has ended whose loads took the store above
\* (2 * viewDistance + 1)^2 chunks before its unloads began.
C30_Witness ==
  /\ Logged(log, "load") # {}
  /\ Logged(log, "unload") # {}
  /\ Len(chunks) + Cardinality(Logged(log, "unload"))
       > (2 * config.viewDistance + 1) * (2 * config.viewDistance + 1)

(***************************************************************************)
(* C31: whatever the order of connections, moves and disconnects, the keys *)
(* of players are the ids of the connected sockets, one entry each, the id *)
(* of an entry is its key, and a move gives no entry to a socket that has  *)
(* disconnected.                                                           *)
(***************************************************************************)
C31_PlayersAreSockets ==
  /\ {players[i].key : i \in 1..Len(players)} = sockets
  /\ \A i \in 1..Len(players), k \in 1..Len(players) :
       players[i].key = players[k].key => i = k
  /\ \A i \in 1..Len(players) :
       /\ players[i].value.id = players[i].key
       /\ players[i].key \notin gone
  /\ lastEvent.op = "lateMove" => (~PlayersHas(players, lastEvent.id) /\ sent = << >>)

\* A move of a socket that had disconnected arrived while others were
\* connected.
C31_Witness ==
  /\ lastEvent.op = "lateMove"
  /\ Cardinality(sockets) >= 2
  /\ Len(players) >= 2

(***************************************************************************)
(* C32: a move of a connected socket that was not broadcast is not lost:   *)
(* unless the socket moves again or disconnects first, the next tick of    *)
(* the roster interval, which comes, carries the stored position and       *)
(* rotation to every other connected socket, no later than 5000 ms after   *)
(* the move.                                                               *)
(***************************************************************************)
C32_ThrottledMoveDelivered ==
  /\ [][ (lastEvent'.n # lastEvent.n /\ lastEvent'.op = "roster")
         => \A e \in throttled' :
              /\ e.delivered
              /\ e.id \in sockets'
              /\ PlayersGet(players', e.id).position = e.data.position
              /\ e \notin throttled => clock' - e.at <= 5000 ]_vars
  /\ (\E e \in throttled : ~e.delivered) ~> (\A e \in throttled : e.delivered)

\* A roster has carried the move of a socket that lost the throttle to
\* another socket's move and is still connected with it.
C32_Witness ==
  /\ lastEvent.op = "roster"
  /\ movedAt # << >>
  /\ Cardinality(sockets) >= 2
  /\ \E e \in throttled : e.delivered /\ e.data.rotation # 0

C34_NoOwnAvatar ==
  \A i \in 1..Len(avatars) : avatars[i].key # localPlayerId


\* C35: touch bindings are exclusive and consistent.  The joystick and the
\* look control are each bound to nothing or to one touch on the screen, and
\* never both to the same touch; joystickActive holds exactly when a
\* joystick touch is bound; while none is bound moveX = moveZ = 0.  A
\* touchstart leaves a control that was bound as it was, whichever touches
\* start on its half, and the touchend or touchcancel of the bound joystick
\* touch unbinds it and resets moveX and moveZ.
C35_TouchBindings ==
  /\ [](/\ touchControls.joystickTouchId \in DOMAIN fingers \cup {Null}
        /\ touchControls.lookTouchId \in DOMAIN fingers \cup {Null}
        /\ touchControls.joystickTouchId # Null
             => touchControls.joystickTouchId # touchControls.lookTouchId
        /\ touchControls.joystickActive <=> touchControls.joystickTouchId # Null
        /\ touchControls.joystickTouchId = Null
             => /\ touchControls.input.moveX.num = 0
                /\ touchControls.input.moveZ.num = 0)
  /\ [][/\ touchEvent'.type = "touchstart" /\ touchControls.joystickTouchId # Null
             => /\ touchControls'.joystickTouchId = touchControls.joystickTouchId
                /\ touchControls'.joystickActive
                /\ touchControls'.joystickCenter = touchControls.joystickCenter
                /\ touchControls'.joystickPos = touchControls.joystickPos
                /\ touchControls'.input = touchControls.input
        /\ touchEvent'.type = "touchstart" /\ touchControls.lookTouchId # Null
             => /\ touchControls'.lookTouchId = touchControls.lookTouchId
                /\ touchControls'.lastLookPos = touchControls.lastLookPos
                /\ touchControls'.input = touchControls.input
        /\ (/\ touchEvent'.type \in {"touchend", "touchcancel"}
            /\ \E k \in DOMAIN touchEvent'.changedTouches :
                 touchEvent'.changedTouches[k].identifier = touchControls.joystickTouchId)
             => /\ touchControls'.joystickTouchId = Null
                /\ ~touchControls'.joystickActive
                /\ touchControls'.input.moveX.num = 0
                /\ touchControls'.input.moveZ.num = 0]_vars

\* A touch has started on the left half while the joystick was bound to
\* another touch, which had pushed it; it is still bound to that touch.
C35_Witness ==
  /\ touchEvent.type = "touchstart"
  /\ touchEvent.joystickTouchId # Null
  /\ \E k \in DOMAIN touchEvent.changedTouches :
       2 * touchEvent.changedTouches[k].clientX < innerWidth
  /\ touchControls.joystickTouchId = touchEvent.joystickTouchId
  /\ touchControls.joystickActive
  /\ touchControls.input.moveX.num # 0


(***************************************************************************)
(* C36: hashCoords(x, z, seed) is (961 * seed + 31 * x + z) mod 2^31 for   *)
(* integers x, z and seed, whose fold the double holds exactly; so it is   *)
(* hashCoords(x + 1, z - 31, seed); and the chunk seeds of the Active      *)
(* Window of viewDistance 15 centred on (x, z), which holds the window of  *)
(* every smaller viewDistance with that centre, are as many as its         *)
(* coordinates.                                                            *)
(***************************************************************************)
C36_LinearHash ==
  hash.pc = "done" =>
    LET low(n) == [hi |-> n.hi % 32768, lo |-> n.lo]
        linear == Carry(961 * low(hash.seed).hi + 31 * low(hash.x).hi + low(hash.z).hi,
                        961 * hash.seed.lo + 31 * hash.x.lo + hash.z.lo)
        window == ActiveWindow([x |-> 0, z |-> 0], 15)
        chunkSeed(d) == hashCoordsOf(Plus(hash.x, Split(d[1])), Plus(hash.z, Split(d[2])),
                                     hash.seed)
    IN /\ hash.result = (linear.hi % 32768) * WordBase + linear.lo
       /\ hash.result = hashCoordsOf(Plus(hash.x, Split(1)), Minus(hash.z, Split(31)),
                                     hash.seed)
       /\ Cardinality({chunkSeed(d) : d \in window}) = Cardinality(window)

\* A call with the default seed and a negative z has returned, and a
\* conversion to 32 bits on its way lost high bits.
C36_Witness ==
  /\ hash.pc = "done"
  /\ hash.seed = Split(DefaultSeed)
  /\ hash.z.hi < 0
  /\ hash.wrapped

====
